---- MODULE Spec2Model ----
(***************************************************************************)
(* Lap segmentation and corner detection of the Apex AI geometry module    *)
(* (src/apexai-backend/src/analysis/geometry.py).                          *)
(*                                                                         *)
(* Units.  Every float of the source is an integer here:                   *)
(*   distance            decimetres (0.1 m)                                *)
(*   time                centiseconds (0.01 s)                             *)
(*   lateral_g           hundredths of g                                   *)
(*   curvature           1e-4 1/m                                          *)
(*   speed               km/h                                              *)
(*   GPS position        planar decimetres (x, y) on the local tangent     *)
(*                       plane; _haversine_distance is the planar distance *)
(* Arrays indexed by sample keep the source's 0-based indices: they are    *)
(* functions on 0..n-1.  Python lists that are only iterated or appended   *)
(* to are sequences.                                                       *)
(***************************************************************************)
EXTENDS Integers, Sequences, FiniteSets, TLC

(***************************************************************************)
(* Bounds of the explored inputs.                                          *)
(***************************************************************************)
MaxLaps == 2
MaxExpected == 3
LapPts == 33
Lap0Pts == 23
MaxLapsArg == 5
TrackPts == 68
MaxSlow == 2
MaxBeacons == 3
BeaconPts == 6
GeomPts == 7
OptPts == 6
ResPts == 5
MergePts == 6
MinDistPts == 5
SavgolPts == 150

(***************************************************************************)
(* Program constants.                                                      *)
(***************************************************************************)
MIN_CORNER_DISTANCE_M == 50
MIN_CORNER_DURATION_S == 30
MIN_LATERAL_G_DEFAULT == 15
MIN_DIST_BETWEEN_DEFAULT == 60
MIN_CIRCUIT_POINTS == 50
BOUNDARY_WINDOW == 8
SPEED_WINDOW_W == 30
MAX_GAP_M == 80
MIN_RUN_POINTS == 4
COHERENCE_RADIUS_M == 300
SEARCH_LO == 30
SEARCH_HI == 400
SEARCH_ITERS == 15
DENSE_SPACING == 5
SPARSE_SPACING == 30
DENSIFY_STEP == 20
MIN_LAP_DISTANCE_DEFAULT == 1000
PIT_EXIT_SPEED == 40
PIT_EXIT_RUN == 50
FINISH_RADIUS_M == 250
CROSSING_SPEED == 30
MIN_ROWS == 3
SPEED_FLOOR == 5
SAVGOL_MIN_WINDOW == 5
SAVGOL_ROWS_PER_WINDOW == 500
G_UNIT == 44498160
MAX_LATERAL_G == 3
PEDAL_GAIN == 20
PEDAL_MAX == 100
NaN == 2000000000
MIN_MEAN_CURVATURE == 1
V2_NUM == 1748142
V_MIN2_DEN == 1125
V_MAX2_DEN == 28125
V10_SQ == 139851360
FILL_LIMIT == 3
SMOOTH_WINDOW == 5
FULL_TURN == 72000
HALF_TURN == 36000
MIN_GPS_POINTS == 10
DEFAULT_SAMPLE_RATE == 10
WINDOW_SECONDS_X2 == 3
MIN_WINDOW == 11
DATA_SHARE == 10
FALLBACK_WINDOW == 51
SHORT_WINDOW == 3
POLYORDER == 3
MIN_POLYORDER == 2

\* Python's None / a missing column, for integer-valued names
None == 0 - 1

(***************************************************************************)
(* Generic helpers.                                                        *)
(***************************************************************************)
Size(a) == Cardinality(DOMAIN a)

Abs(v) == IF v < 0 THEN -v ELSE v

Max2(a, b) == IF a >= b THEN a ELSE b

Min2(a, b) == IF a <= b THEN a ELSE b

SetMin(S) == CHOOSE v \in S : \A w \in S : v <= w

SetMax(S) == CHOOSE v \in S : \A w \in S : v >= w

RECURSIVE SortedSeq(_)
SortedSeq(S) ==
  IF S = {} THEN <<>> ELSE <<SetMin(S)>> \o SortedSeq(S \ {SetMin(S)})

SeqSet(s) == {s[i] : i \in 1..Len(s)}

RECURSIVE SumSeq(_)
SumSeq(s) == IF s = <<>> THEN 0 ELSE Head(s) + SumSeq(Tail(s))

\* sum of a[i] for i in lo..hi (empty when hi < lo), by halves
RECURSIVE SumRange(_, _, _)
SumRange(a, lo, hi) ==
  IF hi < lo THEN 0
  ELSE IF lo = hi THEN a[lo]
  ELSE SumRange(a, lo, (lo + hi) \div 2) + SumRange(a, (lo + hi) \div 2 + 1, hi)

\* np.argmax / np.argmin over a Python list: the first position of the extreme
ArgMaxFirst(s) ==
  SetMin({i \in 1..Len(s) : \A j \in 1..Len(s) : s[j] <= s[i]})

ArgMinFirst(s) ==
  SetMin({i \in 1..Len(s) : \A j \in 1..Len(s) : s[j] >= s[i]})

(***************************************************************************)
(* _haversine_distance, compared against a radius: planar distance between *)
(* two positions, squared on both sides of the comparison.                 *)
(***************************************************************************)
DistSq(x1, y1, x2, y2) == (x1 - x2) * (x1 - x2) + (y1 - y2) * (y1 - y2)

HaversineLess(x1, y1, x2, y2, r) == DistSq(x1, y1, x2, y2) < r * r

(***************************************************************************)
(* The input tables.  A session is an optional pit/out-lap prefix          *)
(* (lap_number 0) followed by laps 1..K of LapPts samples each.  A lap's   *)
(* layout names the local offsets at which a turn event of four samples    *)
(* starts, and whether the lap's GPS positions are usable.                 *)
(***************************************************************************)
Layouts ==
  { [starts |-> {9}, gps |-> TRUE],
    [starts |-> {16}, gps |-> TRUE],
    [starts |-> {9, 16}, gps |-> TRUE],
    [starts |-> {9, 21}, gps |-> TRUE],
    [starts |-> {9}, gps |-> FALSE],
    [starts |-> {}, gps |-> TRUE] }

Prefixes == {"none", "plain", "event"}

\* sample spacing in decimetres: 3 m passes through, 4 m is densified
Spacings == {30, 40}

Shape ==
  [ eventG |-> <<20, 30, 25, 20>>, eventCurv |-> <<300, 500, 400, 300>>,
    eventSpeed |-> <<58, 56, 54, 55>>, straightG |-> 5, straightSpeed |-> 60,
    dt |-> 18, pitY |-> 400, lap0Start |-> 10 ]

EventLen == Len(Shape.eventG)

\* +1 (left) for events starting at 9 or 21, -1 (right) for those at 16
EventSign(e) == IF e = 16 THEN -1 ELSE 1

Row(k, pre, lay, hasLaps, sp) ==
  LET P == IF pre = "none" THEN 0 ELSE Lap0Pts
      lap == IF k < P THEN 0 ELSE ((k - P) \div LapPts) + 1
      o == IF k < P THEN k ELSE (k - P) % LapPts
      starts == IF lap = 0
                THEN (IF pre = "event" THEN {Shape.lap0Start} ELSE {})
                ELSE lay[lap].starts
      hit == {e \in starts : o >= e /\ o < e + EventLen}
      e0 == IF hit = {} THEN 0 ELSE SetMin(hit)
      ph == o - e0 + 1
  IN [ lap |-> IF hasLaps THEN lap ELSE None,
       g |-> IF hit = {} THEN Shape.straightG
             ELSE EventSign(e0) * Shape.eventG[ph],
       curv |-> IF hit = {} THEN (IF k % 2 = 0 THEN 1 ELSE 0)
                ELSE EventSign(e0) * Shape.eventCurv[ph],
       spd |-> IF hit = {} THEN Shape.straightSpeed ELSE Shape.eventSpeed[ph],
       cum |-> k * sp,
       t |-> k * Shape.dt,
       x |-> o * sp,
       y |-> IF lap = 0 THEN Shape.pitY ELSE 0,
       ok |-> IF lap = 0 THEN TRUE ELSE lay[lap].gps ]

Table(pre, K, lay, hasLaps, sp) ==
  LET n == (IF pre = "none" THEN 0 ELSE Lap0Pts) + K * LapPts
  IN [k \in 0..(n - 1) |-> Row(k, pre, lay, hasLaps, sp)]

(***************************************************************************)
(* State.  detect_corners: the input table, the arguments, the locals of   *)
(* the function at its current position pc, the returned table and attrs.  *)
(* detect_laps: the input table with its beacon list, the argument, the    *)
(* locals and the lap_number column being written.                         *)
(***************************************************************************)
VARIABLES
  mode,             \* which operation this behaviour runs
  pc,               \* position in the running function
  df,               \* the input table (rows by index label 0..n-1)
  expected_corners, \* argument, None until it is first read
  laps_analyzed,    \* argument, drawn and resolved (lines 735-738) at line 880
  circ,             \* df_circuit.index: position -> label of df
  lateral_g,        \* local lateral_g over df_circuit positions
  curvature_arr,    \* local curvature_arr over df_circuit positions
  lap_boundaries,   \* positions where lap_number changes
  rs,               \* what _resample_adaptive returned
  zone,             \* is_corner_zone over the resampled points
  valid_corners,    \* list of runs {id, indices, start, end, apex}
  search,           \* threshold search: lo, hi, iteration, outcome
  segments,         \* segments_with_lap_and_apex
  clusters,         \* confirmed clusters (lists of segments)
  rejected,         \* clusters built and not retained
  corner_details,   \* the Corner records
  todo,             \* number of clusters the detail loop has yet to visit
  res,              \* df_result: the columns detect_corners writes
  attrs,            \* df_result.attrs['corners'], None until set
  raised,           \* an exception was caught by the except clause
  caller,           \* the arguments the caller passed, and its first result
  track,            \* detect_laps: the input table (rows by position)
  beacon_markers,   \* df.attrs['beacon_markers']
  min_lap_distance_m, \* argument of detect_laps
  lap_number,       \* the lap_number array being filled
  lap_i,            \* the loop variable i of the running loop
  pits_end_idx,     \* local pits_end_idx
  candidate_idx,    \* local candidate_idx, None when next() found none
  current_lap,      \* local current_lap
  last_passage_dist, \* local last_passage_dist
  near_line,        \* local near_line
  consecutive_fast, \* local consecutive_fast
  method,           \* attrs['method'], "" while it is not set
  n_laps_detected,  \* attrs['n_laps_detected'], None while it is not set
  gdf,              \* calculate_trajectory_geometry: the input rows
  gcols,            \* which of 'throttle', 'brake' the input carries
  geom,             \* its locals and the columns it has written
  sg,               \* apply_savgol_filter: its input sizes and locals
  odf,              \* calculate_optimal_trajectory: the input table and attrs
  opt               \* its loop position, column and corner_details

cornerVars ==
  << df, expected_corners, laps_analyzed, circ, lateral_g, curvature_arr,
     lap_boundaries, rs, zone, valid_corners, search, segments, clusters,
     rejected, corner_details, todo, res, attrs, raised, caller >>

lapVars ==
  << track, beacon_markers, min_lap_distance_m, lap_number, lap_i, pits_end_idx,
     candidate_idx, current_lap, last_passage_dist, near_line,
     consecutive_fast, method, n_laps_detected >>

geomVars == << gdf, gcols, geom, sg >>

optVars == << odf, opt >>

Empty == <<>>

NoSearch == [lo |-> 0, hi |-> 0, it |-> 0, found |-> FALSE, mid |-> 0]

NoRs == [n |-> 0]

(***************************************************************************)
(* Columns of the table handed to detect_corners.                          *)
(***************************************************************************)
HasLaps(d) == Size(d) > 0 /\ d[0].lap # None

NRows(d) == Size(d)

\* df[df['lap_number'] >= 1].copy(), falling back to df.copy() below 50 rows
CircuitLabels(d) ==
  LET all == 0..(NRows(d) - 1)
      sub == {k \in all : d[k].lap >= 1}
  IN IF HasLaps(d)
     THEN (IF Cardinality(sub) < MIN_CIRCUIT_POINTS THEN all ELSE sub)
     ELSE all

\* the rows of a label set in table order, as position -> label
IndexOf(S) ==
  [i \in 0..(Cardinality(S) - 1) |->
     CHOOSE k \in S : Cardinality({j \in S : j < k}) = i]

InitialResult(d) ==
  [k \in DOMAIN d |->
     [ is_corner |-> FALSE, corner_id |-> 0, is_apex |-> FALSE,
       corner_type |-> "straight", lap_number |-> d[k].lap ]]

NCirc == Size(circ)

\* lap_numbers: the lap column of df_circuit, or ones when there is none
LapNumbers(i) == IF HasLaps(df) THEN df[circ[i]].lap ELSE 1

\* lines 741-748
LapBoundaries ==
  IF HasLaps(df)
  THEN {i \in 1..(NCirc - 1) : LapNumbers(i) # LapNumbers(i - 1)}
  ELSE {}

\* lines 750-764: a value is reset when a boundary lies within 8 positions
NearBoundary(j, bnd) ==
  \E b \in bnd : j >= b - BOUNDARY_WINDOW /\ j <= b + BOUNDARY_WINDOW

ResetAtBoundaries(col, bnd) ==
  [j \in DOMAIN col |-> IF NearBoundary(j, bnd) THEN 0 ELSE col[j]]

(***************************************************************************)
(* _avg_spacing_m and _resample_adaptive.  The average spacing is the      *)
(* rational posSum / posCnt; the grid step is the rational stepN / stepD   *)
(* and grid point i lies at i * stepN / stepD.  The returned cum_rs is     *)
(* kept as numerators over the common denominator den.                     *)
(***************************************************************************)
PosDiffs(cum) ==
  {i \in 1..(Size(cum) - 1) : cum[i] - cum[i - 1] > 0}

PosSum(cum) ==
  LET pos == [i \in 1..(Size(cum) - 1) |->
                IF cum[i] - cum[i - 1] > 0 THEN cum[i] - cum[i - 1] ELSE 0]
  IN SumRange(pos, 1, Size(cum) - 1)

PosCnt(cum) == Cardinality(PosDiffs(cum))

\* the decision with an average spacing of exactly 3 m taken for sparse
ResampleStrategyStrict(cum) ==
  LET n == Size(cum)
      S == PosSum(cum)
      C == PosCnt(cum)
      total == IF n > 0 THEN cum[n - 1] ELSE 0
  IN IF n < 2 \/ C = 0 THEN "none"
     ELSE IF S < DENSE_SPACING * C
          THEN (IF total * C < 4 * S THEN "none" ELSE "dedensify")
     ELSE IF S < SPARSE_SPACING * C THEN "none"
     ELSE IF total < DENSIFY_STEP THEN "none" ELSE "densify"

\* "none", "dedensify" or "densify", as lines 645-671 decide it
ResampleStrategy(cum) ==
  LET n == Size(cum)
      S == PosSum(cum)
      C == PosCnt(cum)
      total == IF n > 0 THEN cum[n - 1] ELSE 0
  IN IF n < 2 \/ C = 0 THEN "none"
     ELSE IF S < DENSE_SPACING * C
          THEN (IF total * C < 4 * S THEN "none" ELSE "dedensify")
     ELSE IF S <= SPARSE_SPACING * C THEN "none"
     ELSE IF total < DENSIFY_STEP THEN "none" ELSE "densify"

StepN(cum) ==
  IF ResampleStrategy(cum) = "dedensify" THEN 4 * PosSum(cum) ELSE DENSIFY_STEP

StepD(cum) ==
  IF ResampleStrategy(cum) = "dedensify" THEN PosCnt(cum) ELSE 1

\* len(np.arange(0.0, total_dist + step * 0.5, step))
GridLen(total, sN, sD) == ((2 * total * sD + sN - 1) \div (2 * sN)) + 1

\* np.searchsorted(cumulative_dist, d, side="left") for d = dN / sD
SearchSortedLeft(cum, dN, sD) ==
  Cardinality({j \in DOMAIN cum : cum[j] * sD < dN})

\* lines 682-685: the original index that grid point d = dN / sD copies
NearestIndex(cum, dN, sD) ==
  LET n == Size(cum)
      j0 == SearchSortedLeft(cum, dN, sD)
      j == IF j0 > n - 1 THEN n - 1 ELSE j0
  IN IF j > 0 /\ j < n /\ (dN - cum[j - 1] * sD) < (cum[j] * sD - dN)
     THEN j - 1 ELSE j

ResampleAdaptive(cum, g, spd, t, curv) ==
  LET n == Size(cum)
      strat == ResampleStrategy(cum)
  IN IF strat = "none"
     THEN [ n |-> n, cum |-> cum, den |-> 1, g |-> g, spd |-> spd, t |-> t,
            curv |-> curv, orig |-> [i \in 0..(n - 1) |-> i],
            strategy |-> "none" ]
     ELSE LET sN == StepN(cum)
              sD == StepD(cum)
              m == GridLen(cum[n - 1], sN, sD)
              orig == [i \in 0..(m - 1) |-> NearestIndex(cum, i * sN, sD)]
          IN [ n |-> m, cum |-> [i \in 0..(m - 1) |-> i * sN], den |-> sD,
               g |-> [i \in 0..(m - 1) |-> g[orig[i]]],
               spd |-> [i \in 0..(m - 1) |-> spd[orig[i]]],
               t |-> [i \in 0..(m - 1) |-> t[orig[i]]],
               curv |-> [i \in 0..(m - 1) |-> curv[orig[i]]],
               orig |-> orig, strategy |-> strat ]

(***************************************************************************)
(* The three criteria and the vote (lines 776-793).                        *)
(***************************************************************************)
\* np.percentile(nonzero, 25) times 4, linear interpolation between the
\* order statistics around position 0.25 * (m - 1)
Percentile25x4(vals) ==
  LET I == DOMAIN vals
      m == Cardinality(I)
      Kth(k) == CHOOSE v \in {vals[i] : i \in I} :
                  /\ Cardinality({i \in I : vals[i] < v}) <= k
                  /\ k < Cardinality({i \in I : vals[i] <= v})
      lo == (m - 1) \div 4
      r == (m - 1) % 4
  IN IF r = 0 THEN 4 * Kth(lo)
     ELSE 4 * Kth(lo) + r * (Kth(lo + 1) - Kth(lo))

\* c1: |curvature| above the 25th percentile of the nonzero magnitudes
Criterion1(curv) ==
  LET nz == {i \in DOMAIN curv : Abs(curv[i]) > 0}
      nzv == [i \in nz |-> Abs(curv[i])]
      th == Percentile25x4(nzv)
  IN [i \in DOMAIN curv |-> nz # {} /\ 4 * Abs(curv[i]) > th]

\* c2: |lateral_g| above min_lateral_g
Criterion2(g, minG) == [i \in DOMAIN g |-> Abs(g[i]) > minG]

\* c3: the speed at i is under 97 % of the mean speed of the W points before
\* it and of the W points after it
Criterion3(spd) ==
  LET n == Size(spd)
      W == SPEED_WINDOW_W
  IN [i \in DOMAIN spd |->
        /\ i >= W
        /\ i < n - W
        /\ LET before == SumRange(spd, i - W, i - 1)
               after == SumRange(spd, i + 1, i + W)
           IN /\ before > W
              /\ after > W
              /\ 100 * W * spd[i] < 97 * Min2(before, after)]

B2I(b) == IF b THEN 1 ELSE 0

Vote(r, minG) ==
  LET c1 == Criterion1(r.curv)
      c2 == Criterion2(r.g, minG)
      c3 == Criterion3(r.spd)
  IN [i \in 0..(r.n - 1) |-> B2I(c1[i]) + B2I(c2[i]) + B2I(c3[i]) >= 2]

(***************************************************************************)
(* _merge_close_runs: bridge the gap after a run of True when the arc      *)
(* length from the first False after it to the next True is within         *)
(* max_gap; cum holds numerators over den.                                 *)
(***************************************************************************)
\* the first position >= from that holds val, len(a) when there is none
NextWith(a, from, val) ==
  LET n == Size(a)
  IN IF \E y \in from..(n - 1) : a[y] = val
     THEN CHOOSE y \in from..(n - 1) :
            a[y] = val /\ \A z \in from..(y - 1) : a[z] # val
     ELSE n

\* the gap measured from the last sample of the earlier run
MergeCloseRunsFromLast(vote_array, cum, den, max_gap) ==
  LET n == Size(vote_array)
      RECURSIVE Go(_, _)
      Go(result, i) ==
        IF i >= n THEN result
        ELSE IF result[i]
        THEN LET j == NextWith(result, i, FALSE)
                 k == NextWith(result, j, TRUE)
                 bridge == /\ k < n
                           /\ cum[k] - cum[j - 1] >= 0
                           /\ cum[k] - cum[j - 1] <= max_gap * den
             IN Go(IF bridge
                   THEN [x \in DOMAIN result |->
                           IF x >= j /\ x < k THEN TRUE ELSE result[x]]
                   ELSE result, j)
        ELSE Go(result, NextWith(result, i, TRUE))
  IN IF n = 0 \/ Size(cum) # n THEN vote_array ELSE Go(vote_array, 0)

MergeCloseRuns(vote_array, cum, den, max_gap) ==
  LET n == Size(vote_array)
      RECURSIVE Go(_, _)
      Go(result, i) ==
        IF i >= n THEN result
        ELSE IF result[i]
        THEN LET j == NextWith(result, i, FALSE)
                 k == NextWith(result, j, TRUE)
                 bridge == /\ k < n
                           /\ cum[k] - cum[j] >= 0
                           /\ cum[k] - cum[j] <= max_gap * den
             IN Go(IF bridge
                   THEN [x \in DOMAIN result |->
                           IF x >= j /\ x < k THEN TRUE ELSE result[x]]
                   ELSE result, j)
        \* the source steps i += 1 over the False samples up to the next True
        ELSE Go(result, NextWith(result, i, TRUE))
  IN IF n = 0 \/ Size(cum) # n THEN vote_array ELSE Go(vote_array, 0)

\* scipy.ndimage.label on a 1-D boolean array: the maximal runs of True, in
\* order, as records [s, e] of first and last position
Runs(a) ==
  LET n == Size(a)
      starts == {i \in DOMAIN a : a[i] /\ (i = 0 \/ ~a[i - 1])}
      ordered == SortedSeq(starts)
  IN [q \in 1..Len(ordered) |->
        [s |-> ordered[q], e |-> NextWith(a, ordered[q], FALSE) - 1]]

\* lines 794-800: merged vote, runs of fewer than 4 points dropped
CornerZone(r, minG) ==
  LET merged == MergeCloseRuns(Vote(r, minG), r.cum, r.den, MAX_GAP_M)
      runs == Runs(merged)
      keep == {q \in 1..Len(runs) : runs[q].e - runs[q].s + 1 >= MIN_RUN_POINTS}
  IN [i \in 0..(r.n - 1) |->
        \E q \in keep : i >= runs[q].s /\ i <= runs[q].e]

(***************************************************************************)
(* Lines 806-826: the runs that survive the length, duration and           *)
(* lateral-g filters, mapped back to positions of df_circuit.              *)
(***************************************************************************)
RunIndices(r, run) == [q \in 1..(run.e - run.s + 1) |-> r.orig[run.s + q - 1]]

RunIsValid(r, run, latg, minG) ==
  LET ind == RunIndices(r, run)
  IN /\ run.e - run.s + 1 >= 2
     /\ ~(r.cum[run.e] - r.cum[run.s] < MIN_CORNER_DISTANCE_M * r.den)
     /\ ~(r.t[run.e] - r.t[run.s] < MIN_CORNER_DURATION_S)
     /\ ~(\A q \in 1..Len(ind) : Abs(latg[ind[q]]) < minG)

RunCorner(r, run, cid, latg) ==
  LET ind == RunIndices(r, run)
      gv == [q \in 1..Len(ind) |-> Abs(latg[ind[q]])]
  IN [ id |-> cid, indices |-> ind, start |-> r.orig[run.s],
       end |-> r.orig[run.e], apex |-> ind[ArgMaxFirst(gv)] ]

ValidCorners(r, zn, latg, minG) ==
  LET runs == Runs(zn)
      RECURSIVE Go(_)
      Go(cid) ==
        IF cid > Len(runs) THEN <<>>
        ELSE (IF RunIsValid(r, runs[cid], latg, minG)
              THEN <<RunCorner(r, runs[cid], cid, latg)>> ELSE <<>>)
             \o Go(cid + 1)
  IN Go(1)

(***************************************************************************)
(* _merge_by_min_dist.  min_d is a numerator over MidDen, so that every    *)
(* midpoint of the 15 bisections of [3 m, 40 m] is an integer.             *)
(***************************************************************************)
MidDen == 2 ^ SEARCH_ITERS

\* lines 843-847: may corner nxt be merged into cur ?
MergeBlocked(cur, nxt, bnd) ==
  bnd # {} /\ \E b \in bnd : b >= cur.end + 1 /\ b < nxt.start

MergeCloseEnough(cur, nxt, cum, min_d) ==
  /\ cur.end < Size(cum)
  /\ nxt.start < Size(cum)
  /\ (cum[nxt.start] - cum[cur.end]) * MidDen < min_d

MergeInto(cur, nxt) ==
  [cur EXCEPT !.end = nxt.end,
              !.indices = SortedSeq(SeqSet(cur.indices) \cup SeqSet(nxt.indices))]

\* the input returned unmerged as soon as min_d is above 5 m
MergeByMinDistAllAbove(corners, cum, min_d, bnd) ==
  LET RECURSIVE Inner(_, _)
      Inner(cur, j) ==
        IF j > Len(corners) THEN <<cur, j>>
        ELSE IF MergeBlocked(cur, corners[j], bnd) THEN <<cur, j>>
        ELSE IF MergeCloseEnough(cur, corners[j], cum, min_d)
             THEN Inner(MergeInto(cur, corners[j]), j + 1)
        ELSE <<cur, j>>
      RECURSIVE Outer(_)
      Outer(i) ==
        IF i > Len(corners) THEN <<>>
        ELSE LET got == Inner(corners[i], i + 1)
             IN <<got[1]>> \o Outer(got[2])
  IN IF corners = <<>> \/ min_d <= 0 \/ min_d > 50 * MidDen THEN corners
     ELSE Outer(1)

MergeByMinDist(corners, cum, min_d, bnd) ==
  LET RECURSIVE Inner(_, _)
      \* returns <<cur, j>>: cur after absorbing corners[j..], j the next seed
      Inner(cur, j) ==
        IF j > Len(corners) THEN <<cur, j>>
        ELSE IF MergeBlocked(cur, corners[j], bnd) THEN <<cur, j>>
        ELSE IF MergeCloseEnough(cur, corners[j], cum, min_d)
             THEN Inner(MergeInto(cur, corners[j]), j + 1)
        ELSE <<cur, j>>
      RECURSIVE Outer(_)
      Outer(i) ==
        IF i > Len(corners) THEN <<>>
        ELSE LET got == Inner(corners[i], i + 1)
             IN <<got[1]>> \o Outer(got[2])
  IN IF corners = <<>> \/ min_d <= 0 THEN corners ELSE Outer(1)

(***************************************************************************)
(* Lines 882-895: lap, apex index and apex GPS of each merged run.         *)
(***************************************************************************)
\* int(np.bincount(lap_nums).argmax()): the most frequent lap, the smallest
\* one on a tie
MajorityLap(laps) ==
  LET Count(l) == Cardinality({q \in 1..Len(laps) : laps[q] = l})
      best == {l \in SeqSet(laps) : \A l2 \in SeqSet(laps) : Count(l2) <= Count(l)}
  IN SetMin(best)

NoGps == [ok |-> FALSE, x |-> 0, y |-> 0]

\* the position of the sample of largest |lateral_g| instead
GetApexGpsAtMaxG(d, cidx, indices) ==
  LET valid == SelectSeq(indices,
                 LAMBDA i : i >= 0 /\ i < Size(cidx) /\ d[cidx[i]].ok)
      gv == [q \in 1..Len(valid) |-> Abs(d[cidx[valid[q]]].g)]
      apex_iloc == valid[ArgMaxFirst(gv)]
  IN IF Len(indices) = 0 \/ Size(cidx) = 0 \/ Len(valid) = 0 THEN NoGps
     ELSE [ok |-> TRUE, x |-> d[cidx[apex_iloc]].x, y |-> d[cidx[apex_iloc]].y]

\* _get_apex_gps: the position of the slowest sample among the indices whose
\* position is usable; None when there is no such index.  A row's ok flag
\* stands for: not NaN, inside the lat/lon range, not (0, 0).
GetApexGps(d, cidx, indices) ==
  LET valid == SelectSeq(indices,
                 LAMBDA i : i >= 0 /\ i < Size(cidx) /\ d[cidx[i]].ok)
      speeds == [q \in 1..Len(valid) |-> d[cidx[valid[q]]].spd]
      apex_iloc == valid[ArgMinFirst(speeds)]
  IN IF Len(indices) = 0 \/ Size(cidx) = 0 \/ Len(valid) = 0 THEN NoGps
     ELSE [ok |-> TRUE, x |-> d[cidx[apex_iloc]].x, y |-> d[cidx[apex_iloc]].y]

Segment(d, cidx, latg, c) ==
  LET laps == [q \in 1..Len(c.indices) |->
                 IF HasLaps(d) THEN d[cidx[c.indices[q]]].lap ELSE 1]
      gv == [q \in 1..Len(c.indices) |-> Abs(latg[c.indices[q]])]
  IN [ lap |-> IF Len(laps) > 0 THEN MajorityLap(laps) ELSE 1,
       indices |-> c.indices, start |-> c.start, end |-> c.end,
       apex_index |-> c.indices[ArgMaxFirst(gv)],
       apex |-> GetApexGps(d, cidx, c.indices) ]

(***************************************************************************)
(* Lines 897-919: greedy clustering around the first unused segment.       *)
(* Returns [kept, dropped]: the clusters retained and those seen in fewer  *)
(* than min_laps_confirm laps.                                             *)
(***************************************************************************)
\* the radius doubled
CoherentWide(s1, s2) ==
  HaversineLess(s1.apex.x, s1.apex.y, s2.apex.x, s2.apex.y,
                2 * COHERENCE_RADIUS_M)

\* line 914
Coherent(s1, s2) ==
  HaversineLess(s1.apex.x, s1.apex.y, s2.apex.x, s2.apex.y, COHERENCE_RADIUS_M)

LapsInCluster(cluster) == Cardinality({cluster[q].lap : q \in 1..Len(cluster)})

\* the threshold rounded up instead of down
MinLapsConfirmCeil(la) == Max2(1, (la + 1) \div 2)

\* line 880
MinLapsConfirm(la) == Max2(1, la \div 2)

\* the comparison made strict
ClusterRetainedStrict(cluster, min_laps) == LapsInCluster(cluster) > min_laps

\* line 918
ClusterRetained(cluster, min_laps) == LapsInCluster(cluster) >= min_laps

BuildClusters(segs, min_laps) ==
  LET n == Len(segs)
      RECURSIVE Go(_, _, _, _)
      Go(i, used, kept, dropped) ==
        IF i > n THEN [kept |-> kept, dropped |-> dropped]
        ELSE IF i \in used \/ ~segs[i].apex.ok THEN Go(i + 1, used, kept, dropped)
        ELSE LET members == {i} \cup
                   {j \in (i + 1)..n :
                      j \notin used /\ segs[j].apex.ok /\ Coherent(segs[i], segs[j])}
                 order == SortedSeq(members)
                 cluster == [q \in 1..Len(order) |-> segs[order[q]]]
             IN IF ClusterRetained(cluster, min_laps)
                THEN Go(i + 1, used \cup members, Append(kept, cluster), dropped)
                ELSE Go(i + 1, used \cup members, kept, Append(dropped, cluster))
  IN Go(1, {}, <<>>, <<>>)

(***************************************************************************)
(* Lines 923-1003: the Corner record of one cluster.  Indices stored in a  *)
(* Corner are index labels of df (df_circuit.index[...]).  Each per-lap    *)
(* record also carries the labels of its segment's samples (seg['indices'] *)
(* of the source), which the labelling loop of lines 1005-1015 walks.      *)
(***************************************************************************)
SumOver(col, indices) == SumSeq([q \in 1..Len(indices) |-> col[indices[q]]])

\* line 959, for one segment
SegmentType(curv, seg) == IF SumOver(curv, seg.indices) > 0 THEN "left" ELSE "right"

\* lines 936-959: the type left by the last segment of the cluster
ClusterType(curv, cluster) ==
  IF \A q \in 1..Len(cluster) : Len(cluster[q].indices) = 0 THEN "left"
  ELSE SegmentType(curv,
         cluster[SetMax({q \in 1..Len(cluster) : Len(cluster[q].indices) > 0})])

\* the record with the run's two ends exchanged
PerLapRecordEndsSwapped(cidx, seg) ==
  [ lap |-> seg.lap, apex |-> seg.apex,
    entry_index |-> cidx[seg.end], apex_index |-> cidx[seg.apex_index],
    exit_index |-> cidx[seg.start],
    samples |-> {cidx[seg.indices[q]] : q \in 1..Len(seg.indices)} ]

PerLapRecord(cidx, seg) ==
  [ lap |-> seg.lap, apex |-> seg.apex,
    entry_index |-> cidx[seg.start], apex_index |-> cidx[seg.apex_index],
    exit_index |-> cidx[seg.end],
    samples |-> {cidx[seg.indices[q]] : q \in 1..Len(seg.indices)} ]

\* line 1000: n_laps = len(cluster)
ConfirmedInLaps(cluster) == Len(cluster)

CornerDetail(cidx, curv, cluster, physical_id) ==
  LET per_lap == [q \in 1..Len(cluster) |-> PerLapRecord(cidx, cluster[q])]
      first_lap == SetMin({cluster[q].lap : q \in 1..Len(cluster)})
      on_first == {per_lap[q].entry_index :
                     q \in {q2 \in 1..Len(cluster) : per_lap[q2].lap = first_lap}}
  IN [ id |-> physical_id, type |-> ClusterType(curv, cluster),
       lap |-> cluster[1].lap,
       entry_index |-> per_lap[1].entry_index,
       apex_index |-> per_lap[1].apex_index,
       exit_index |-> per_lap[1].exit_index,
       entry_index_first_lap |-> SetMin(on_first),
       confirmed_in_laps |-> ConfirmedInLaps(cluster),
       per_lap_data |-> per_lap ]

(***************************************************************************)
(* Lines 1005-1015: the labels the cluster writes into df_result.          *)
(***************************************************************************)
LabelCluster(r, cidx, cluster, physical_id, ctype) ==
  LET Segs(k) == {q \in 1..Len(cluster) :
                    \E p \in 1..Len(cluster[q].indices) :
                       /\ cluster[q].indices[p] < Size(cidx)
                       /\ cidx[cluster[q].indices[p]] = k}
      Apex(k) == \E q \in 1..Len(cluster) :
                    /\ cluster[q].apex_index < Size(cidx)
                    /\ cidx[cluster[q].apex_index] = k
  IN [k \in DOMAIN r |->
        LET a == IF Apex(k) THEN [r[k] EXCEPT !.is_apex = TRUE] ELSE r[k]
        IN IF Segs(k) = {} THEN a
           ELSE [a EXCEPT !.is_corner = TRUE, !.corner_id = physical_id,
                          !.corner_type = ctype,
                          !.lap_number = cluster[SetMax(Segs(k))].lap]]

(***************************************************************************)
(* _renumber_corners_by_entry_index and the remapping of lines 1023-1026.  *)
(***************************************************************************)
\* lap_starts: the smallest index label of each lap of df_circuit
LapStart(d, cidx, lap) ==
  SetMin({cidx[i] : i \in {i2 \in DOMAIN cidx : d[cidx[i2]].lap = lap}})

\* statistics.median, doubled so that the mean of two middle values is whole
Median2(vals) ==
  LET n == Len(vals)
      Kth(k) == CHOOSE v \in SeqSet(vals) :
                  /\ Cardinality({q \in 1..n : vals[q] < v}) <= k
                  /\ k < Cardinality({q \in 1..n : vals[q] <= v})
  IN IF n % 2 = 1 THEN 2 * Kth(n \div 2)
     ELSE Kth(n \div 2 - 1) + Kth(n \div 2)

Infinity == 1000000000

\* corner["_sort_index"], doubled
SortIndex2(d, cidx, corner) ==
  IF ~HasLaps(d) THEN 2 * corner.entry_index_first_lap
  ELSE LET pl == corner.per_lap_data
           rel == [q \in 1..Len(pl) |->
                     pl[q].entry_index - LapStart(d, cidx, pl[q].lap)]
       IN IF Len(pl) = 0 THEN Infinity ELSE Median2(rel)

\* an ordering that is not the same on every call: a repeated call meets the
\* elements in the opposite order
SortedPositionPerCall(keys, i) ==
  1 + Cardinality({j \in 1..Len(keys) :
                     IF caller.again
                     THEN keys[j] > keys[i] \/ (keys[j] = keys[i] /\ j > i)
                     ELSE keys[j] < keys[i] \/ (keys[j] = keys[i] /\ j < i)})

\* list.sort(key=...) is stable: the position of element i in the sorted list
SortedPosition(keys, i) ==
  1 + Cardinality({j \in 1..Len(keys) :
                     keys[j] < keys[i] \/ (keys[j] = keys[i] /\ j < i)})

RenumberOrder(d, cidx, details) ==
  LET keys == [q \in 1..Len(details) |-> SortIndex2(d, cidx, details[q])]
  IN [q \in 1..Len(details) |-> SortedPosition(keys, q)]

\* the list after the sort with ids reassigned 1..N
RenumberCorners(d, cidx, details) ==
  LET pos == RenumberOrder(d, cidx, details)
  IN [p \in 1..Len(details) |->
        [details[CHOOSE q \in 1..Len(details) : pos[q] = p] EXCEPT !.id = p]]

\* the samples keep the ids given before the sort
OldToNewStale(d, cidx, details, old) == old

\* old_to_new.get(old, old), old_to_new built at lines 608-616
OldToNew(d, cidx, details, old) ==
  LET pos == RenumberOrder(d, cidx, details)
      hit == {q \in 1..Len(details) : details[q].id = old}
  IN IF hit = {} THEN old ELSE SetMax({pos[q] : q \in hit})

RemapIds(r, d, cidx, details) ==
  [k \in DOMAIN r |->
     IF r[k].is_corner
     THEN [r[k] EXCEPT !.corner_id = OldToNew(d, cidx, details, r[k].corner_id)]
     ELSE r[k]]

(***************************************************************************)
(* detect_corners as a state machine.                                      *)
(***************************************************************************)
\* the tables explored: sessions with laps (with or without a pit prefix),
\* sessions without a lap_number column, and sparse sessions behind a pit
\* prefix
Scenarios ==
  { sc \in [pre : Prefixes, K : 1..MaxLaps, hasLaps : BOOLEAN, sp : Spacings] :
      /\ (~sc.hasLaps => sc.pre = "none")
      /\ (sc.sp # 30 => sc.pre = "plain" /\ sc.hasLaps) }

\* the layouts of the laps of a scenario: GPS is lost in the first lap or in
\* none, a lap without any event is explored in one-lap sessions, and the
\* laps after the second drive the second lap's layout again
LapLayouts(sc) ==
  { lay \in [1..sc.K -> Layouts] :
      /\ \A l \in 2..sc.K : lay[l].gps
      /\ \A l \in 3..sc.K : lay[l] = lay[2]
      /\ (sc.sp # 30 \/ ~sc.hasLaps => lay[1].gps)
      /\ (sc.K > 1 => \A l \in 1..sc.K : lay[l].starts # {}) }

\* the values drawn for the optional arguments
ExpectedArgs == {None} \cup (1..MaxExpected)

LapsArgs == {None} \cup (1..MaxLapsArg)

ZeroCorners == [total_corners |-> 0, corner_details |-> <<>>]

\* attrs['corners'] before it is assigned
Unset == [total_corners |-> None, corner_details |-> <<>>]

\* an argument the running call has not read yet
Unread == 0 - 2

\* what the caller of detect_corners holds: expected_corners as the call read
\* it and, once it calls again with the same table and the same arguments,
\* what the first call returned and the laps_analyzed that call resolved
\* (lines 735-738)
NoCaller ==
  [expected_corners |-> Unread, laps_analyzed |-> Unread, again |-> FALSE,
   res |-> Empty, attrs |-> Unset]

\* calculate_optimal_trajectory is not running
OptIdle ==
  /\ odf = Empty
  /\ opt = Empty

\* calculate_trajectory_geometry is not running
GeomIdle ==
  /\ gdf = Empty
  /\ gcols = {}
  /\ geom = Empty
  /\ sg = Empty

\* detect_laps is not running
LapsIdle ==
  /\ track = Empty
  /\ beacon_markers = <<>>
  /\ min_lap_distance_m = 0
  /\ lap_number = Empty
  /\ lap_i = 0
  /\ pits_end_idx = 0
  /\ candidate_idx = None
  /\ current_lap = 0
  /\ last_passage_dist = 0
  /\ near_line = FALSE
  /\ consecutive_fast = 0
  /\ method = ""
  /\ n_laps_detected = None

InitCorners ==
  /\ mode = "corners"
  /\ pc = "start"
  /\ \E sc \in Scenarios : \E lay \in LapLayouts(sc) :
       df = Table(sc.pre, sc.K, lay, sc.hasLaps, sc.sp)
  /\ expected_corners = None
  /\ laps_analyzed = None
  /\ circ = Empty
  /\ lateral_g = Empty
  /\ curvature_arr = Empty
  /\ lap_boundaries = {}
  /\ rs = NoRs
  /\ zone = Empty
  /\ valid_corners = Empty
  /\ search = NoSearch
  /\ segments = Empty
  /\ clusters = Empty
  /\ rejected = Empty
  /\ corner_details = Empty
  /\ todo = 0
  /\ res = Empty
  /\ attrs = Unset
  /\ raised = FALSE
  /\ caller = NoCaller
  /\ LapsIdle
  /\ GeomIdle
  /\ OptIdle

\* lines 711-723
Filter ==
  /\ mode = "corners" /\ pc = "start"
  /\ circ' = IndexOf(CircuitLabels(df))
  /\ res' = InitialResult(df)
  /\ pc' = "filtered"
  /\ UNCHANGED << caller, lapVars, geomVars, optVars, mode, df, expected_corners, laps_analyzed, lateral_g,
                  curvature_arr, lap_boundaries, rs, zone, valid_corners, search,
                  segments, clusters, rejected, corner_details, todo, attrs,
                  raised >>

\* lines 726-764
ResetSignals ==
  /\ mode = "corners" /\ pc = "filtered"
  /\ lap_boundaries' = LapBoundaries
  /\ lateral_g' = ResetAtBoundaries([i \in DOMAIN circ |-> df[circ[i]].g],
                                    LapBoundaries)
  /\ curvature_arr' = ResetAtBoundaries([i \in DOMAIN circ |-> df[circ[i]].curv],
                                        LapBoundaries)
  /\ pc' = "reset"
  /\ UNCHANGED << caller, lapVars, geomVars, optVars, mode, df, expected_corners, laps_analyzed, circ, rs, zone,
                  valid_corners, search, segments, clusters, rejected,
                  corner_details, todo, res, attrs, raised >>

\* lines 770-773
Resample ==
  /\ mode = "corners" /\ pc = "reset"
  /\ rs' = ResampleAdaptive([i \in DOMAIN circ |-> df[circ[i]].cum], lateral_g,
                            [i \in DOMAIN circ |-> df[circ[i]].spd],
                            [i \in DOMAIN circ |-> df[circ[i]].t], curvature_arr)
  /\ pc' = "resampled"
  /\ UNCHANGED << caller, lapVars, geomVars, optVars, mode, df, expected_corners, laps_analyzed, circ, lateral_g,
                  curvature_arr, lap_boundaries, zone, valid_corners, search,
                  segments, clusters, rejected, corner_details, todo, res, attrs,
                  raised >>

\* the function returns: its locals are gone, the caller keeps the table,
\* the attrs and the arguments it passed
Return(r, a, exc) ==
  /\ pc' = "done"
  /\ res' = r
  /\ attrs' = a
  /\ raised' = exc
  /\ expected_corners' = None
  /\ circ' = Empty
  /\ lateral_g' = Empty
  /\ curvature_arr' = Empty
  /\ lap_boundaries' = {}
  /\ rs' = NoRs
  /\ zone' = Empty
  /\ valid_corners' = Empty
  /\ search' = NoSearch
  /\ segments' = Empty
  /\ clusters' = Empty
  /\ rejected' = Empty
  /\ corner_details' = Empty
  /\ todo' = 0
  /\ UNCHANGED << caller, lapVars, geomVars, optVars, mode, df, laps_analyzed >>

\* lines 776-804; the function returns at line 804 when no zone is left
VoteZones ==
  /\ mode = "corners" /\ pc = "resampled"
  /\ \E zn \in {CornerZone(rs, MIN_LATERAL_G_DEFAULT)} :
        IF \A i \in DOMAIN zn : ~zn[i]
        THEN Return(res, ZeroCorners, FALSE)
        ELSE /\ zone' = zn
             /\ pc' = "zoned"
             /\ UNCHANGED << caller, lapVars, geomVars, optVars, mode, df, expected_corners, laps_analyzed, circ,
                             lateral_g, curvature_arr, lap_boundaries, rs,
                             valid_corners, search, segments, clusters, rejected,
                             corner_details, todo, res, attrs, raised >>

\* lines 806-826
FilterRuns ==
  /\ mode = "corners" /\ pc = "zoned"
  /\ valid_corners' = ValidCorners(rs, zone, lateral_g, MIN_LATERAL_G_DEFAULT)
  /\ pc' = "valid"
  /\ UNCHANGED << caller, lapVars, geomVars, optVars, mode, df, expected_corners, laps_analyzed, circ, lateral_g,
                  curvature_arr, lap_boundaries, rs, zone, search, segments,
                  clusters, rejected, corner_details, todo, res, attrs, raised >>

\* line 874 / 876: merging with the caller's min_distance_between_corners
DefaultMerge(corners, cum, bnd) ==
  MergeByMinDist(corners, cum, MIN_DIST_BETWEEN_DEFAULT * MidDen, bnd)

CircCum == [i \in DOMAIN circ |-> df[circ[i]].cum]

\* lines 858-860 and 875-876: the argument expected_corners is read here
BeginMerge ==
  /\ mode = "corners" /\ pc = "valid"
  /\ \E e \in ExpectedArgs :
       /\ caller.expected_corners \in {Unread, e}
       /\ caller' = [caller EXCEPT !.expected_corners = e]
       /\ expected_corners' = e
       /\ IF e # None /\ e >= 1
          THEN /\ search' = [lo |-> SEARCH_LO * MidDen, hi |-> SEARCH_HI * MidDen,
                             it |-> 0, found |-> FALSE, mid |-> 0]
               /\ pc' = "search"
               /\ UNCHANGED valid_corners
          ELSE /\ valid_corners' = DefaultMerge(valid_corners, CircCum, lap_boundaries)
               /\ pc' = "merged"
               /\ UNCHANGED search
  /\ UNCHANGED << lapVars, geomVars, optVars, mode, df, laps_analyzed, circ, lateral_g, curvature_arr,
                  lap_boundaries, rs, zone, segments, clusters, rejected,
                  corner_details, todo, res, attrs, raised >>

\* lines 869-872: which end of the interval the midpoint replaces
NarrowHi(count, expected) == count > expected

\* lines 861-872: one iteration of the threshold search
SearchStep ==
  /\ mode = "corners" /\ pc = "search"
  /\ search.it < SEARCH_ITERS
  /\ \E mid \in {(search.lo + search.hi) \div 2} :
     \E m \in {MergeByMinDist(valid_corners, CircCum, mid, lap_boundaries)} :
        IF Len(m) = expected_corners
        THEN /\ valid_corners' = m
             /\ search' = [search EXCEPT !.found = TRUE, !.mid = mid,
                                         !.it = search.it + 1]
             /\ pc' = "merged"
        ELSE /\ search' = IF NarrowHi(Len(m), expected_corners)
                          THEN [search EXCEPT !.hi = mid, !.it = search.it + 1]
                          ELSE [search EXCEPT !.lo = mid, !.it = search.it + 1]
             /\ pc' = "search"
             /\ UNCHANGED valid_corners
  /\ UNCHANGED << caller, lapVars, geomVars, optVars, mode, df, expected_corners, laps_analyzed, circ, lateral_g,
                  curvature_arr, lap_boundaries, rs, zone, segments, clusters,
                  rejected, corner_details, todo, res, attrs, raised >>

\* lines 873-874: the for loop ran out without a break
SearchExhausted ==
  /\ mode = "corners" /\ pc = "search"
  /\ search.it = SEARCH_ITERS
  /\ valid_corners' = DefaultMerge(valid_corners, CircCum, lap_boundaries)
  /\ pc' = "merged"
  /\ UNCHANGED << caller, lapVars, geomVars, optVars, mode, df, expected_corners, laps_analyzed, circ, lateral_g,
                  curvature_arr, lap_boundaries, rs, zone, search, segments,
                  clusters, rejected, corner_details, todo, res, attrs, raised >>

\* lines 881-895; expected_corners and the search interval are dead from here
BuildSegments ==
  /\ mode = "corners" /\ pc = "merged"
  /\ segments' = [q \in 1..Len(valid_corners) |->
                    Segment(df, circ, lateral_g, valid_corners[q])]
  /\ expected_corners' = None
  /\ search' = NoSearch
  /\ pc' = "segmented"
  /\ UNCHANGED << caller, lapVars, geomVars, optVars, mode, df, laps_analyzed, circ, lateral_g, curvature_arr,
                  lap_boundaries, rs, zone, valid_corners, clusters, rejected,
                  corner_details, todo, res, attrs, raised >>

\* lines 735-738: the value of laps_analyzed when the argument is la
ResolveLaps(la) ==
  IF la # None THEN la
  ELSE IF HasLaps(df)
       THEN Max2(1, Cardinality({LapNumbers(i) : i \in DOMAIN circ}))
       ELSE 1

\* lines 879-880 and 897-919; the argument laps_analyzed is read here
Cluster ==
  /\ mode = "corners" /\ pc = "segmented"
  /\ \E la \in LapsArgs :
       \E n \in {ResolveLaps(la)} \cap ({caller.laps_analyzed} \cup
                                       {m \in 1..MaxLaps + MaxLapsArg :
                                          caller.laps_analyzed = Unread}) :
       \E built \in {BuildClusters(segments, MinLapsConfirm(n))} :
          /\ laps_analyzed' = n
          /\ clusters' = built.kept
          /\ rejected' = built.dropped
          /\ todo' = Len(built.kept)
  /\ pc' = "clustered"
  /\ UNCHANGED << caller, lapVars, geomVars, optVars, mode, df, expected_corners, circ, lateral_g, curvature_arr,
                  lap_boundaries, rs, zone, valid_corners, search, segments,
                  corner_details, res, attrs, raised >>

\* lines 923-1015, one iteration of "for cluster in clusters"
DetailStep ==
  /\ mode = "corners" /\ pc \in {"clustered", "detail"}
  /\ todo > 0
  /\ \E physical_id \in {Len(clusters) - todo + 1} :
     \E detail \in {CornerDetail(circ, curvature_arr, clusters[physical_id],
                                 physical_id)} :
        /\ corner_details' = Append(corner_details, detail)
        /\ res' = LabelCluster(res, circ, clusters[physical_id], physical_id,
                               detail.type)
  /\ todo' = todo - 1
  /\ rejected' = Empty
  /\ pc' = "detail"
  /\ UNCHANGED << caller, lapVars, geomVars, optVars, mode, df, expected_corners, laps_analyzed, circ, lateral_g, curvature_arr,
                  lap_boundaries, rs, zone, valid_corners, search, segments,
                  clusters, attrs, raised >>

\* lines 1017-1026
Renumber ==
  /\ mode = "corners" /\ pc \in {"clustered", "detail"}
  /\ todo = 0
  /\ corner_details' = RenumberCorners(df, circ, corner_details)
  /\ res' = RemapIds(res, df, circ, corner_details)
  /\ rejected' = Empty
  /\ pc' = "renumbered"
  /\ UNCHANGED << caller, lapVars, geomVars, optVars, mode, df, expected_corners, laps_analyzed, circ, lateral_g, curvature_arr,
                  lap_boundaries, rs, zone, valid_corners, search, segments,
                  clusters, todo, attrs, raised >>

\* lines 1033-1042 and 1046
Finish ==
  /\ mode = "corners" /\ pc = "renumbered"
  /\ Return(res, [total_corners |-> Len(corner_details),
                  corner_details |-> corner_details], FALSE)

\* lines 725 and 1043-1046: an exception raised inside the try block (a
\* MemoryError at any allocation, pandas' ValueError at line 1024 on a table
\* whose index labels repeat) is caught and the function returns df_result
TryPositions ==
  {"filtered", "reset", "resampled", "zoned", "valid", "search", "merged",
   "segmented", "clustered", "detail", "renumbered"}

Raise ==
  /\ mode = "corners" /\ pc \in TryPositions
  /\ Return(res, ZeroCorners, TRUE)

NextCorners ==
  \/ Filter
  \/ ResetSignals
  \/ Resample
  \/ VoteZones
  \/ FilterRuns
  \/ BeginMerge
  \/ SearchStep
  \/ SearchExhausted
  \/ BuildSegments
  \/ Cluster
  \/ DetailStep
  \/ Renumber
  \/ Finish
  \/ Raise

vars == << mode, pc, cornerVars, lapVars, geomVars, optVars >>

SpecCorners == InitCorners /\ [][NextCorners]_vars

\* a table whose lap_number column holds two laps or more
MultiLap(d) ==
  HasLaps(d) /\ Cardinality({d[k].lap : k \in DOMAIN d} \ {0}) >= 2

\* laps_analyzed as lines 735-738 resolve it for table d when it is not given
DefaultLaps(d) ==
  IF HasLaps(d)
  THEN Max2(1, Cardinality({d[k].lap : k \in CircuitLabels(d)}))
  ELSE 1

\* the caller calls detect_corners a second time on the same multi-lap table
\* with the arguments of the first call: it keeps what the first call
\* returned and the new call starts from fresh locals (lines 707-725).  The
\* callers followed pass at most one of expected_corners and laps_analyzed.
CallAgain ==
  /\ mode = "corners" /\ pc = "done"
  /\ ~caller.again
  /\ ~raised
  /\ MultiLap(df)
  /\ \/ caller.expected_corners \in {Unread, None}
     \/ laps_analyzed \in {None, DefaultLaps(df)}
  /\ caller' = [caller EXCEPT !.again = TRUE, !.res = res, !.attrs = attrs,
                              !.laps_analyzed =
                                 IF laps_analyzed = None THEN Unread
                                 ELSE laps_analyzed]
  /\ pc' = "start"
  /\ res' = Empty
  /\ attrs' = Unset
  /\ raised' = FALSE
  /\ laps_analyzed' = None
  /\ UNCHANGED << lapVars, geomVars, optVars, mode, df, expected_corners, circ,
                  lateral_g, curvature_arr, lap_boundaries, rs, zone,
                  valid_corners, search, segments, clusters, rejected,
                  corner_details, todo >>

NextTwice == NextCorners \/ CallAgain

\* the tables of InitCorners that hold two laps or more
InitTwice == InitCorners /\ MultiLap(df)

SpecTwice == InitTwice /\ [][NextTwice]_vars

(***************************************************************************)
(* detect_laps.  The tables explored carry the time, latitude, longitude,  *)
(* speed and cumulative_distance columns.  The kart drives a square loop   *)
(* of four sides of TrackShape.side samples; a sample is slow (pit lane)   *)
(* when it is one of the first `slow` samples or the sample `hole`, and    *)
(* its position is NaN when it is the sample nanAt.                        *)
(***************************************************************************)
TrackShape == [side |-> 4, step |-> 200, dt |-> 10, fast |-> 60, slow |-> 20]

TrackX(k) ==
  LET m == k % (4 * TrackShape.side)
      off == m % TrackShape.side
      sd == m \div TrackShape.side
  IN IF sd = 0 THEN off * TrackShape.step
     ELSE IF sd = 1 THEN TrackShape.side * TrackShape.step
     ELSE IF sd = 2 THEN (TrackShape.side - off) * TrackShape.step
     ELSE 0

TrackY(k) ==
  LET m == k % (4 * TrackShape.side)
      off == m % TrackShape.side
      sd == m \div TrackShape.side
  IN IF sd = 0 THEN 0
     ELSE IF sd = 1 THEN off * TrackShape.step
     ELSE IF sd = 2 THEN TrackShape.side * TrackShape.step
     ELSE (TrackShape.side - off) * TrackShape.step

TrackRow(k, slow, hole, nanAt) ==
  [ t |-> k * TrackShape.dt,
    spd |-> IF k < slow \/ k = hole THEN TrackShape.slow ELSE TrackShape.fast,
    cum |-> k * TrackShape.step,
    x |-> TrackX(k), y |-> TrackY(k), nan |-> (k = nanAt) ]

TrackTable(n, slow, hole, nanAt) ==
  [k \in 0..(n - 1) |-> TrackRow(k, slow, hole, nanAt)]

\* sessions without beacons: with or without a sustained fast run, with a
\* slow sample inside the run, with a position lost
GpsTracks ==
  { TrackTable(n, slow, hole, nanAt) :
      n \in {PIT_EXIT_RUN, TrackPts}, slow \in 0..MaxSlow, hole \in {None, 10},
      nanAt \in {None, 6, 30} }

\* the values passed for min_lap_distance_m: the default and a distance the
\* session never covers
MinLapArgs == {MIN_LAP_DISTANCE_DEFAULT, 20 * MIN_LAP_DISTANCE_DEFAULT}

\* the beacon times recorded by the logger, in the order the file lists them
BeaconTimes == {5, 20, 40, 70}

BeaconLists ==
  UNION { [1..m -> BeaconTimes] : m \in 1..MaxBeacons }

\* the inner loop with a beacon counted only once t is past it
RECURSIVE BeaconScanStrict(_, _, _, _)
BeaconScanStrict(t, beacons, j, cur) ==
  IF j > Len(beacons) THEN cur
  ELSE IF t > beacons[j] THEN BeaconScanStrict(t, beacons, j + 1, j)
  ELSE cur

\* lines 416-421: the inner loop over the beacons, left at the first beacon
\* later than t
RECURSIVE BeaconScan(_, _, _, _)
BeaconScan(t, beacons, j, cur) ==
  IF j > Len(beacons) THEN cur
  ELSE IF t >= beacons[j] THEN BeaconScan(t, beacons, j + 1, j)
  ELSE cur

BeaconLap(t, beacons) == BeaconScan(t, beacons, 1, 0)

\* line 471
IsFast(row) == row.spd > PIT_EXIT_SPEED

\* line 473
RunLongEnough(fast) == fast > PIT_EXIT_RUN

\* line 479: the test that takes pits_end_idx for "no pit exit found"
PitExitMissing(pe) == pe = 0

\* lines 484-486
CandidateIdx(tr, pe, min_lap) ==
  LET hit == {k \in pe..(Size(tr) - 1) : tr[k].cum >= tr[pe].cum + min_lap}
  IN IF hit = {} THEN None ELSE SetMin(hit)

\* _haversine_distance(...) < r and > 2.5 r; a NaN position makes the
\* distance NaN and both comparisons false
NearFinish(row, fin) ==
  ~row.nan /\ ~fin.nan /\ HaversineLess(row.x, row.y, fin.x, fin.y, FINISH_RADIUS_M)

FarFromFinish(row, fin) ==
  /\ ~row.nan
  /\ ~fin.nan
  /\ 4 * DistSq(row.x, row.y, fin.x, fin.y) > 25 * FINISH_RADIUS_M * FINISH_RADIUS_M

\* the crossing test without the near_line debounce
IsCrossingNoDebounce(row, fin, last, min_lap, near) ==
  /\ NearFinish(row, fin)
  /\ 10 * (row.cum - last) > 3 * min_lap
  /\ row.spd > CROSSING_SPEED

\* lines 509-512
IsCrossing(row, fin, last, min_lap, near) ==
  /\ NearFinish(row, fin)
  /\ 10 * (row.cum - last) > 3 * min_lap
  /\ row.spd > CROSSING_SPEED
  /\ ~near

AllOnes(tr) == [k \in DOMAIN tr |-> 1]

InitLaps ==
  /\ mode = "laps"
  /\ pc = "start"
  /\ \/ /\ track = TrackTable(BeaconPts, 0, None, None)
        /\ beacon_markers \in BeaconLists
        /\ min_lap_distance_m = MIN_LAP_DISTANCE_DEFAULT
     \/ /\ track \in GpsTracks
        /\ beacon_markers = <<>>
        /\ min_lap_distance_m \in MinLapArgs
  /\ lap_number = [k \in DOMAIN track |-> 0]
  /\ lap_i = 0
  /\ pits_end_idx = 0
  /\ candidate_idx = None
  /\ current_lap = 0
  /\ last_passage_dist = 0
  /\ near_line = FALSE
  /\ consecutive_fast = 0
  /\ method = ""
  /\ n_laps_detected = None
  /\ df = Empty
  /\ expected_corners = None
  /\ laps_analyzed = None
  /\ circ = Empty
  /\ lateral_g = Empty
  /\ curvature_arr = Empty
  /\ lap_boundaries = {}
  /\ rs = NoRs
  /\ zone = Empty
  /\ valid_corners = Empty
  /\ search = NoSearch
  /\ segments = Empty
  /\ clusters = Empty
  /\ rejected = Empty
  /\ corner_details = Empty
  /\ todo = 0
  /\ res = Empty
  /\ attrs = Unset
  /\ raised = FALSE
  /\ caller = NoCaller
  /\ GeomIdle
  /\ OptIdle

\* detect_laps returns: the locals are gone, the caller keeps the table with
\* its lap_number column and attrs
ReturnLaps(laps, m, nl) ==
  /\ pc' = "done"
  /\ lap_number' = laps
  /\ method' = m
  /\ n_laps_detected' = nl
  /\ lap_i' = 0
  /\ pits_end_idx' = 0
  /\ candidate_idx' = None
  /\ current_lap' = 0
  /\ last_passage_dist' = 0
  /\ near_line' = FALSE
  /\ consecutive_fast' = 0
  /\ UNCHANGED << cornerVars, geomVars, optVars, mode, track, beacon_markers, min_lap_distance_m >>

\* lines 414-422, one iteration of "for i in range(n_points)"
BeaconSample ==
  /\ mode = "laps" /\ pc \in {"start", "beacons"}
  /\ beacon_markers # <<>>
  /\ lap_i < Size(track)
  /\ lap_number' = [lap_number EXCEPT
                      ![lap_i] = BeaconLap(track[lap_i].t, beacon_markers)]
  /\ lap_i' = lap_i + 1
  /\ pc' = "beacons"
  /\ UNCHANGED << cornerVars, geomVars, optVars, mode, track, beacon_markers, min_lap_distance_m,
                  pits_end_idx, candidate_idx, current_lap, last_passage_dist,
                  near_line, consecutive_fast, method, n_laps_detected >>

\* lines 424-435
BeaconsDone ==
  /\ mode = "laps" /\ pc \in {"start", "beacons"}
  /\ beacon_markers # <<>>
  /\ lap_i = Size(track)
  /\ ReturnLaps(lap_number, "beacon_markers", Len(beacon_markers))

\* lines 470-477, one iteration of "for i in range(n_points)" that does not
\* leave the loop
PitSample ==
  /\ mode = "laps" /\ pc \in {"start", "pitscan"}
  /\ beacon_markers = <<>>
  /\ lap_i < Size(track)
  /\ ~(IsFast(track[lap_i]) /\ RunLongEnough(consecutive_fast + 1))
  /\ consecutive_fast' = IF IsFast(track[lap_i]) THEN consecutive_fast + 1 ELSE 0
  /\ lap_i' = lap_i + 1
  /\ pc' = "pitscan"
  /\ UNCHANGED << cornerVars, geomVars, optVars, mode, track, beacon_markers, min_lap_distance_m,
                  lap_number, pits_end_idx, candidate_idx, current_lap,
                  last_passage_dist, near_line, method, n_laps_detected >>

\* lines 473-475 and 479-481: the loop is left by break or runs out, and
\* pits_end_idx is tested
FindPitsEnd ==
  /\ mode = "laps" /\ pc \in {"start", "pitscan"}
  /\ beacon_markers = <<>>
  /\ \/ lap_i = Size(track)
     \/ /\ lap_i < Size(track)
        /\ IsFast(track[lap_i])
        /\ RunLongEnough(consecutive_fast + 1)
  /\ \E pe \in {IF lap_i = Size(track) THEN pits_end_idx
                 ELSE Max2(0, lap_i - PIT_EXIT_RUN)} :
       IF PitExitMissing(pe)
       THEN ReturnLaps(AllOnes(track), "", None)
       ELSE /\ pits_end_idx' = pe
            /\ consecutive_fast' = 0
            /\ lap_i' = 0
            /\ pc' = "pits"
            /\ UNCHANGED << cornerVars, geomVars, optVars, mode, track, beacon_markers,
                            min_lap_distance_m, lap_number, candidate_idx,
                            current_lap, last_passage_dist, near_line, method,
                            n_laps_detected >>

\* lines 483-498
FindCandidate ==
  /\ mode = "laps" /\ pc = "pits"
  /\ \E c \in {CandidateIdx(track, pits_end_idx, min_lap_distance_m)} :
       IF c = None
       THEN ReturnLaps(AllOnes(track), "", None)
       ELSE /\ candidate_idx' = c
            /\ current_lap' = 0
            /\ last_passage_dist' = 0
            /\ near_line' = FALSE
            /\ lap_i' = 0
            /\ pc' = "loop"
            /\ UNCHANGED << cornerVars, geomVars, optVars, mode, track, beacon_markers,
                            min_lap_distance_m, lap_number, pits_end_idx,
                            consecutive_fast, method, n_laps_detected >>

\* lines 500-519, one iteration of "for i in range(n_points)"
LapSample ==
  /\ mode = "laps" /\ pc = "loop"
  /\ lap_i < Size(track)
  /\ \E row \in {track[lap_i]} : \E fin \in {track[candidate_idx]} :
       IF row.nan \/ lap_i < pits_end_idx
       THEN /\ lap_number' = [lap_number EXCEPT ![lap_i] = current_lap]
            /\ UNCHANGED << current_lap, last_passage_dist, near_line >>
       ELSE IF IsCrossing(row, fin, last_passage_dist, min_lap_distance_m, near_line)
       THEN /\ current_lap' = current_lap + 1
            /\ last_passage_dist' = row.cum
            /\ near_line' = TRUE
            /\ lap_number' = [lap_number EXCEPT ![lap_i] = current_lap + 1]
       ELSE /\ near_line' = IF FarFromFinish(row, fin) THEN FALSE ELSE near_line
            /\ lap_number' = [lap_number EXCEPT ![lap_i] = current_lap]
            /\ UNCHANGED << current_lap, last_passage_dist >>
  /\ lap_i' = lap_i + 1
  /\ pc' = "loop"
  /\ UNCHANGED << cornerVars, geomVars, optVars, mode, track, beacon_markers, min_lap_distance_m,
                  pits_end_idx, candidate_idx, consecutive_fast, method,
                  n_laps_detected >>

\* lines 521-524
LapsDone ==
  /\ mode = "laps" /\ pc = "loop"
  /\ lap_i = Size(track)
  /\ ReturnLaps(lap_number, "gps_clustering", current_lap)

NextLaps ==
  \/ BeaconSample
  \/ BeaconsDone
  \/ PitSample
  \/ FindPitsEnd
  \/ FindCandidate
  \/ LapSample
  \/ LapsDone

SpecLaps == InitLaps /\ [][NextLaps]_vars

(***************************************************************************)
(* calculate_trajectory_geometry.  Positions are planar, x east and y      *)
(* north in decimetres; distances are decimetres rounded down; headings    *)
(* are in 1/200 degree; curvature is in 1e-4 1/m; speed is in km/h.  The   *)
(* kart moves one step of PathShape.step per sample in one of 24           *)
(* directions 15 degrees apart, and turns by a whole number of directions  *)
(* between two steps.                                                      *)
(***************************************************************************)
PathShape == [step |-> 100, x0 |-> 1000, y0 |-> 1000, v |-> 60, slow |-> 3]

\* 100 cos(15 k degrees), k = 0..6
QuarterCos == << 100, 97, 87, 71, 50, 26, 0 >>

DirX(d) ==
  LET m == d % 24
  IN IF m <= 6 THEN QuarterCos[m + 1]
     ELSE IF m <= 12 THEN -QuarterCos[13 - m]
     ELSE IF m <= 18 THEN -QuarterCos[m - 11]
     ELSE QuarterCos[25 - m]

DirY(d) == DirX(d + 18)

\* the direction of the step that leads to sample k (k >= 1)
RECURSIVE DirAt(_, _, _)
DirAt(d0, turns, k) ==
  IF k <= 1 THEN d0 % 24 ELSE (DirAt(d0, turns, k - 1) + turns[k - 1] + 24) % 24

RECURSIVE PathX(_, _, _, _)
PathX(d0, turns, halt, k) ==
  IF k = 0 THEN PathShape.x0
  ELSE PathX(d0, turns, halt, k - 1)
         + (IF k = halt THEN 0 ELSE DirX(DirAt(d0, turns, k)))

RECURSIVE PathY(_, _, _, _)
PathY(d0, turns, halt, k) ==
  IF k = 0 THEN PathShape.y0
  ELSE PathY(d0, turns, halt, k - 1)
         + (IF k = halt THEN 0 ELSE DirY(DirAt(d0, turns, k)))

\* a recording: the path, the sample at which the kart stands still (halt),
\* the samples whose position is lost (lost), the sample driven slowly and the
\* sample whose speed is lost; the speed alternates around PathShape.v
PathRow(k, d0, turns, halt, lost, slowAt, spdNan) ==
  [ x |-> PathX(d0, turns, halt, k),
    y |-> PathY(d0, turns, halt, k),
    nan |-> (k \in lost),
    spd |-> IF k = spdNan THEN None
            ELSE IF k = slowAt THEN PathShape.slow
            ELSE PathShape.v + 2 * (k % 3) - 7 * (k % 2),
    throttle |-> 50 + k,
    brake |-> 10 + k ]

PathTable(n, d0, turns, halt, lost, slowAt, spdNan) ==
  [k \in 0..(n - 1) |-> PathRow(k, d0, turns, halt, lost, slowAt, spdNan)]

GeomLens == {2, 3, GeomPts}

\* the turn between consecutive steps, in directions: gentle everywhere
\* (every sequence), or the same sharp turn at every step, or left turns of
\* changing sharpness
GentleTurns == {0 - 1, 0, 1}

SharpTurns == {0 - 7, 0 - 6, 6, 7}

TurnSeqs(n) ==
  [1..(n - 2) -> GentleTurns]
    \cup { [k \in 1..(n - 2) |-> t] : t \in SharpTurns }
    \cup (IF n > 3 THEN [1..(n - 2) -> {1, 4}] ELSE {})

\* the direction of the first step: east, north, west, south, and just
\* below 360 degrees
StartDirs == {0, 6, 12, 18, 23}

Recordings ==
  { PathTable(n, d0, turns, None, {}, None, None) :
      n \in {GeomPts}, d0 \in StartDirs, turns \in TurnSeqs(GeomPts) }
  \cup
  { PathTable(n, d0, [k \in 1..(n - 2) |-> t], v.halt, v.lost, v.slowAt, v.spdNan) :
      n \in GeomLens, d0 \in StartDirs, t \in GentleTurns,
      v \in { [halt |-> None, lost |-> {}, slowAt |-> None, spdNan |-> None],
              [halt |-> 3, lost |-> {}, slowAt |-> None, spdNan |-> None],
              [halt |-> None, lost |-> {3}, slowAt |-> None, spdNan |-> None],
              [halt |-> None, lost |-> {0, 1, 2, 3}, slowAt |-> None, spdNan |-> None],
              [halt |-> None, lost |-> {}, slowAt |-> 3, spdNan |-> None],
              [halt |-> None, lost |-> {}, slowAt |-> None, spdNan |-> 2] } }

\* lines 191-193: ffill(limit=3), then bfill(limit=3): the sample whose value
\* ends up at k, None when k stays NaN (and fillna(0) applies); valid is the
\* set of samples that are not NaN
FFillSource(valid, k) ==
  IF k \in valid THEN k
  ELSE LET before == {j \in valid : j < k}
       IN IF before # {} /\ k - SetMax(before) <= FILL_LIMIT
          THEN SetMax(before) ELSE None

FillSource(valid, n, k) ==
  LET filled == {j \in 0..(n - 1) : FFillSource(valid, j) # None}
      after == {j \in filled : j > k}
  IN IF FFillSource(valid, k) # None THEN FFillSource(valid, k)
     ELSE IF after # {} /\ SetMin(after) - k <= FILL_LIMIT
     THEN FFillSource(valid, SetMin(after))
     ELSE None

\* lat, lon after lines 191-192, as one array of positions
FilledPositions(d) ==
  LET n == Size(d)
      valid == {k \in 0..(n - 1) : ~d[k].nan}
  IN [k \in 0..(n - 1) |->
        IF FillSource(valid, n, k) = None THEN [x |-> 0, y |-> 0]
        ELSE [x |-> d[FillSource(valid, n, k)].x, y |-> d[FillSource(valid, n, k)].y]]

\* speed after line 193
FilledSpeed(d) ==
  LET n == Size(d)
      valid == {k \in 0..(n - 1) : d[k].spd # None}
  IN [k \in 0..(n - 1) |->
        IF FillSource(valid, n, k) = None THEN 0 ELSE d[FillSource(valid, n, k)].spd]

\* the largest r in lo..hi with r * r <= v
RECURSIVE ISqrtIn(_, _, _)
ISqrtIn(v, lo, hi) ==
  IF lo = hi THEN lo
  ELSE LET mid == (lo + hi + 1) \div 2
       IN IF mid * mid <= v THEN ISqrtIn(v, mid, hi) ELSE ISqrtIn(v, lo, mid - 1)

\* _haversine_distance in decimetres: the planar distance, rounded down
HaversineDistance(p, q) == ISqrtIn(DistSq(p.x, p.y, q.x, q.y), 0, 32767)

\* the eastward displacement taken for the distance
SegmentDistancesSigned(pos) ==
  [i \in DOMAIN pos |-> IF i = 0 THEN 0 ELSE pos[i].x - pos[i - 1].x]

\* lines 196-209
SegmentDistances(pos) ==
  [i \in DOMAIN pos |-> IF i = 0 THEN 0 ELSE HaversineDistance(pos[i - 1], pos[i])]

\* line 214: np.cumsum
CumSum(a) == [i \in DOMAIN a |-> SumRange(a, 0, i)]

\* arctan of p / q for 0 <= p <= q, q > 0, in 1/200 degree, within a quarter
\* of a degree: 45 z + 15.64 z (1 - z) degrees for z = p / q
AtanUnit(p, q) ==
  LET z == (1000 * p) \div q
  IN 9 * z + (3128 * z * (1000 - z)) \div 1000000

\* arctan of b / a for a, b >= 0, not both 0, in 0..18000
AtanQuadrant(b, a) ==
  IF b <= a THEN AtanUnit(b, a) ELSE 18000 - AtanUnit(a, b)

\* np.rad2deg(np.arctan2(dy, dx)) % 360, in 1/200 degree
ArcTan2Deg(dy, dx) ==
  IF dx >= 0 /\ dy >= 0 THEN AtanQuadrant(dy, dx) % FULL_TURN
  ELSE IF dx < 0 /\ dy >= 0 THEN HALF_TURN - AtanQuadrant(dy, -dx)
  ELSE IF dx < 0 /\ dy < 0 THEN HALF_TURN + AtanQuadrant(-dy, -dx)
  ELSE (FULL_TURN - AtanQuadrant(-dy, dx)) % FULL_TURN

\* the bearing clockwise from north: arctan2 of the metres moved east and north
StepHeadingFromNorth(prev, cur) == ArcTan2Deg(cur.x - prev.x, cur.y - prev.y)

\* lines 226-237: the metres moved north (dlat_m) and east (dlon_m) go to
\* arctan2 in this order
StepHeading(prev, cur) == ArcTan2Deg(cur.y - prev.y, cur.x - prev.x)

\* lines 218-242: the heading before smoothing; a sample that moved 0.1 m or
\* less keeps the previous heading
RECURSIVE RawHeading(_, _)
RawHeading(pos, i) ==
  IF i = 0 THEN 0
  ELSE IF DistSq(pos[i - 1].x, pos[i - 1].y, pos[i].x, pos[i].y) > 1
  THEN StepHeading(pos[i - 1], pos[i])
  ELSE RawHeading(pos, i - 1)

\* np.unwrap's step: the difference dd brought into [-180, 180], 180 kept
\* positive when dd is positive
WrapDiff(dd) ==
  LET ddmod == ((dd + HALF_TURN) % FULL_TURN) - HALF_TURN
  IN IF ddmod = -HALF_TURN /\ dd > 0 THEN HALF_TURN ELSE ddmod

\* np.unwrap over an array
RECURSIVE Unwrap(_, _)
Unwrap(h, i) ==
  IF i = 0 THEN h[0] ELSE Unwrap(h, i - 1) + WrapDiff(h[i] - h[i - 1])

\* the k-th smallest of a[lo..hi], k = 1..
KthSmallest(a, lo, hi, k) ==
  CHOOSE v \in {a[j] : j \in lo..hi} :
    /\ Cardinality({j \in lo..hi : a[j] < v}) < k
    /\ Cardinality({j \in lo..hi : a[j] <= v}) >= k

\* np.median of a[lo..hi]
MedianOf(a, lo, hi) ==
  LET m == hi - lo + 1
  IN IF m % 2 = 1 THEN KthSmallest(a, lo, hi, (m + 1) \div 2)
     ELSE (KthSmallest(a, lo, hi, m \div 2)
             + KthSmallest(a, lo, hi, m \div 2 + 1)) \div 2

\* _smooth_heading(heading, window=5)
SmoothHeading(h) ==
  LET n == Size(h)
      u == [i \in 0..(n - 1) |-> Unwrap(h, i)]
      half == SMOOTH_WINDOW \div 2
  IN [i \in 0..(n - 1) |->
        (IF n >= SMOOTH_WINDOW
         THEN MedianOf(u, Max2(0, i - half), Min2(n, i + half + 1) - 1)
         ELSE u[i]) % FULL_TURN]

\* lines 271-273: the heading change between i-1 and i+1 that gives the
\* curvature its magnitude, through np.unwrap of the three headings
DeltaHeading(prev, curr, next) ==
  Abs(WrapDiff(curr - prev) + WrapDiff(next - curr))

\* lines 283-289: the sign, from the wrapped difference of the outer headings
HeadingDiff(prev, next) ==
  IF next - prev > HALF_TURN THEN next - prev - FULL_TURN
  ELSE IF next - prev < -HALF_TURN THEN next - prev + FULL_TURN
  ELSE next - prev

CurvatureSign(prev, next) == IF HeadingDiff(prev, next) > 0 THEN 1 ELSE -1

\* lines 251-299 for one sample, in 1e-4 1/m rounded toward zero, so that a
\* magnitude below 1e-4 is 0; pi is 355/113 and 0.001 rad is 4068/355 units
RawCurvature(h, seg, spd, i) ==
  LET n == Size(h)
      dist_total == seg[i] + seg[i + 1]
      delta == DeltaHeading(h[i - 1], h[i], h[i + 1])
  IN IF i = 0 \/ i = n - 1 THEN 0
     ELSE IF spd[i] < SPEED_FLOOR THEN 0
     ELSE IF dist_total < 1 THEN 0
     ELSE IF delta * 355 > 4068
     THEN CurvatureSign(h[i - 1], h[i + 1]) * ((delta * 355 * 25) \div (113 * 9 * dist_total))
     ELSE 0

\* lines 302-305
SavgolWindow(n) ==
  LET w0 == Max2(SAVGOL_MIN_WINDOW, n \div SAVGOL_ROWS_PER_WINDOW)
      w1 == IF w0 % 2 = 0 THEN w0 + 1 ELSE w0
  IN Min2(w1, IF n % 2 = 0 THEN n - 1 ELSE n)

\* savgol_filter(window_length=5, polyorder=2, mode='nearest'), times 35: the
\* quadratic fit weights -3, 12, 17, 12, -3 over the samples i-2..i+2, the
\* array extended by its end values
Savgol5x35(c, i) ==
  LET n == Size(c)
      at(k) == c[Max2(0, Min2(n - 1, k))]
  IN -3 * at(i - 2) + 12 * at(i - 1) + 17 * at(i) + 12 * at(i + 1) - 3 * at(i + 2)

\* lines 249-316: the curvature column, in 1/35 of 1e-4 1/m
Curvature(h, seg, spd) ==
  LET n == Size(h)
      raw == [i \in 0..(n - 1) |-> RawCurvature(h, seg, spd, i)]
  IN IF n >= SavgolWindow(n) /\ SavgolWindow(n) >= SAVGOL_MIN_WINDOW
     THEN [i \in 0..(n - 1) |-> Savgol5x35(raw, i)]
     ELSE [i \in 0..(n - 1) |-> 35 * raw[i]]

Sign(v) == IF v > 0 THEN 1 ELSE IF v < 0 THEN -1 ELSE 0

\* lines 323-338 for one sample, in 1/G_UNIT of g: speed_ms ** 2 *
\* abs(curvature) / GRAVITY_MS2, clipped to 3 g, with the curvature's sign
LateralG(c, spd) ==
  IF spd > SPEED_FLOOR /\ Abs(c) > 35
  THEN Sign(c) * Min2(spd * spd * Abs(c), MAX_LATERAL_G * G_UNIT)
  ELSE 0

\* line 349
InfersPedals(columns) == "throttle" \notin columns \/ "brake" \notin columns

\* lines 353-366 for one sample
InferredThrottle(spd, i) ==
  IF i = 0 THEN 0
  ELSE IF spd[i] - spd[i - 1] >= 1
  THEN Min2(PEDAL_MAX, PEDAL_GAIN * (spd[i] - spd[i - 1])) ELSE 0

InferredBrake(spd, i) ==
  IF i = 0 THEN 0
  ELSE IF spd[i] - spd[i - 1] <= -1
  THEN Min2(PEDAL_MAX, PEDAL_GAIN * (spd[i - 1] - spd[i])) ELSE 0

\* lines 349-372: the throttle and brake columns of df_result
ThrottleColumn(d, columns, spd) ==
  [i \in DOMAIN d |->
     IF InfersPedals(columns) THEN InferredThrottle(spd, i)
     ELSE d[i].throttle]

BrakeColumn(d, columns, spd) ==
  [i \in DOMAIN d |->
     IF InfersPedals(columns) THEN InferredBrake(spd, i)
     ELSE d[i].brake]

\* the locals and columns of calculate_trajectory_geometry before line 178
GeomStart ==
  [ pos |-> Empty, speed |-> Empty, segment_distance |-> Empty,
    cumulative_distance |-> Empty, heading |-> Empty, curvature |-> Empty,
    lateral_g |-> Empty, throttle |-> Empty, brake |-> Empty ]

\* detect_corners is not running
CornersIdle ==
  /\ df = Empty
  /\ expected_corners = None
  /\ laps_analyzed = None
  /\ circ = Empty
  /\ lateral_g = Empty
  /\ curvature_arr = Empty
  /\ lap_boundaries = {}
  /\ rs = NoRs
  /\ zone = Empty
  /\ valid_corners = Empty
  /\ search = NoSearch
  /\ segments = Empty
  /\ clusters = Empty
  /\ rejected = Empty
  /\ corner_details = Empty
  /\ todo = 0
  /\ res = Empty
  /\ attrs = Unset
  /\ raised = FALSE
  /\ caller = NoCaller

InitGeom ==
  /\ mode = "geometry"
  /\ pc = "start"
  /\ gdf \in Recordings
  /\ gcols = {}
  /\ geom = GeomStart
  /\ sg = Empty
  /\ CornersIdle
  /\ LapsIdle
  /\ OptIdle

\* lines 173-174
GeomReject ==
  /\ mode = "geometry" /\ pc = "start"
  /\ Size(gdf) < MIN_ROWS
  /\ pc' = "value_error"
  /\ UNCHANGED << cornerVars, lapVars, optVars, mode, sg, gdf, gcols, geom >>

\* lines 178-193
GeomFill ==
  /\ mode = "geometry" /\ pc = "start"
  /\ Size(gdf) >= MIN_ROWS
  /\ geom' = [geom EXCEPT !.pos = FilledPositions(gdf),
                          !.speed = FilledSpeed(gdf)]
  /\ pc' = "g_filled"
  /\ UNCHANGED << cornerVars, lapVars, optVars, mode, sg, gdf, gcols >>

\* lines 195-215
GeomDistance ==
  /\ mode = "geometry" /\ pc = "g_filled"
  /\ \E seg \in {SegmentDistances(geom.pos)} :
       geom' = [geom EXCEPT !.segment_distance = seg,
                            !.cumulative_distance = CumSum(seg)]
  /\ pc' = "g_distance"
  /\ UNCHANGED << cornerVars, lapVars, optVars, mode, sg, gdf, gcols >>

\* lines 217-246
GeomHeading ==
  /\ mode = "geometry" /\ pc = "g_distance"
  /\ geom' = [geom EXCEPT !.heading =
                SmoothHeading([i \in DOMAIN geom.pos |-> RawHeading(geom.pos, i)])]
  /\ pc' = "g_heading"
  /\ UNCHANGED << cornerVars, lapVars, optVars, mode, sg, gdf, gcols >>

\* lines 248-316
GeomCurvature ==
  /\ mode = "geometry" /\ pc = "g_heading"
  /\ geom' = [geom EXCEPT !.curvature =
                Curvature(geom.heading, geom.segment_distance, geom.speed)]
  /\ pc' = "g_curvature"
  /\ UNCHANGED << cornerVars, lapVars, optVars, mode, sg, gdf, gcols >>

\* lines 318-346
GeomLateralG ==
  /\ mode = "geometry" /\ pc = "g_curvature"
  /\ geom' = [geom EXCEPT !.lateral_g =
                [i \in DOMAIN geom.curvature |->
                   LateralG(geom.curvature[i], geom.speed[i])]]
  /\ pc' = "g_lateral"
  /\ UNCHANGED << cornerVars, lapVars, optVars, mode, sg, gdf, gcols >>

\* lines 348-374: the input's optional columns are read, and the function
\* returns df_result
GeomThrottleBrake ==
  /\ mode = "geometry" /\ pc = "g_lateral"
  /\ \E columns \in SUBSET {"throttle", "brake"} :
       /\ gcols' = columns
       /\ geom' = [geom EXCEPT
                     !.throttle = ThrottleColumn(gdf, columns, geom.speed),
                     !.brake = BrakeColumn(gdf, columns, geom.speed)]
  /\ pc' = "done"
  /\ UNCHANGED << cornerVars, lapVars, optVars, mode, sg, gdf >>

NextGeom ==
  \/ GeomReject
  \/ GeomFill
  \/ GeomDistance
  \/ GeomHeading
  \/ GeomCurvature
  \/ GeomLateralG
  \/ GeomThrottleBrake

SpecGeom == InitGeom /\ [][NextGeom]_vars

(***************************************************************************)
(* calculate_optimal_trajectory.  curvature is in 1e-4 1/m, NaN where a    *)
(* value is missing; speeds are in tenths of km/h.  With the mean absolute *)
(* curvature S / cnt, v_optimal_kmh squared is                             *)
(* 3.6^2 * 1.1 * 9.81 * 1e4 * cnt / S = 1398513.6 cnt / S, so that         *)
(* 30 < v < 150 is 1125 S < 1748142 cnt < 28125 S.                         *)
(***************************************************************************)
\* the table detect_corners returned: a sample belongs to no Corner
\* (corner_id 0) or to Corner 1, 2, ...
OptCornerId(k) == IF k % 3 = 0 THEN 0 ELSE k \div 3 + 1

\* the curvatures tried: missing, straight, a radius of 333 m, of 50 m to
\* the right and to the left, of 3.3 m
OptCurvatures == {NaN, 0, 30, 0 - 200, 200, 3000}

OptTables ==
  { [k \in 0..(OptPts - 1) |->
       [corner_id |-> OptCornerId(k),
        curvature |-> IF OptCornerId(k) = 0 THEN 0 ELSE c[k]]] :
    c \in [{k \in 0..(OptPts - 1) : OptCornerId(k) # 0} -> OptCurvatures] }

\* attrs['corners']['corner_details']: the Corners 1..m; Corner 3 has no
\* sample in the table
OptDetails ==
  { [q \in 1..m |-> [id |-> q, apex_speed_kmh |-> 400 + 100 * q,
                       optimal_apex_speed_kmh |-> None,
                       speed_efficiency_pct |-> None]] : m \in 1..3 }

\* lines 1096-1098
CurvatureValid(d, id) ==
  {k \in DOMAIN d : d[k].corner_id = id /\ d[k].curvature # NaN}

\* the sum of np.abs(curvature_valid)
RECURSIVE AbsSum(_, _)
AbsSum(d, S) ==
  IF S = {} THEN 0
  ELSE Abs(d[SetMin(S)].curvature) + AbsSum(d, S \ {SetMin(S)})

\* the band test without its upper limit
InBandNoCeiling(sum, cnt) ==
  /\ sum > MIN_MEAN_CURVATURE * cnt
  /\ V_MIN2_DEN * sum < V2_NUM * cnt

\* lines 1105 and 1115: curvature_mean > 0.0001 and 30 < v_optimal_kmh < 150
InBand(sum, cnt) ==
  /\ sum > MIN_MEAN_CURVATURE * cnt
  /\ V_MIN2_DEN * sum < V2_NUM * cnt
  /\ V2_NUM * cnt < V_MAX2_DEN * sum

\* lines 1107-1112, in tenths of km/h rounded down
OptimalSpeed(sum, cnt) == ISqrtIn((V10_SQ * cnt) \div sum, 0, 32767)

\* lines 1100-1129 for one Corner: the speed recorded, None when the Corner
\* is skipped
CornerOptimum(d, id) ==
  LET valid == CurvatureValid(d, id)
      sum == AbsSum(d, valid)
  IN IF valid = {} THEN None
     ELSE IF InBand(sum, Cardinality(valid)) THEN OptimalSpeed(sum, Cardinality(valid))
     ELSE None

\* lines 1122-1126, in tenths of a percent
SpeedEfficiency(apex_speed, v) == (1000 * apex_speed) \div v

InitOptimal ==
  /\ mode = "optimal"
  /\ pc = "start"
  /\ \E d \in OptTables : \E cd \in OptDetails :
       odf = [rows |-> d, corner_details |-> cd]
  /\ opt = Empty
  /\ CornersIdle
  /\ LapsIdle
  /\ GeomIdle

\* lines 1076-1089
OptBegin ==
  /\ mode = "optimal" /\ pc = "start"
  /\ opt' = [ i |-> 1,
              optimal_speed_kmh |-> [k \in DOMAIN odf.rows |-> NaN],
              corner_details |-> odf.corner_details ]
  /\ pc' = "o_loop"
  /\ UNCHANGED << cornerVars, lapVars, geomVars, mode, odf >>

\* lines 1091-1129, one iteration of "for corner_info in corner_details"
OptCorner ==
  /\ mode = "optimal" /\ pc = "o_loop"
  /\ opt.i <= Len(opt.corner_details)
  /\ \E id \in {opt.corner_details[opt.i].id} :
     \E v \in {CornerOptimum(odf.rows, id)} :
       opt' = IF v = None THEN [opt EXCEPT !.i = @ + 1]
              ELSE [ i |-> opt.i + 1,
                     optimal_speed_kmh |->
                       [k \in DOMAIN odf.rows |->
                          IF odf.rows[k].corner_id = id THEN v
                          ELSE opt.optimal_speed_kmh[k]],
                     corner_details |->
                       [opt.corner_details EXCEPT
                          ![opt.i].optimal_apex_speed_kmh = v,
                          ![opt.i].speed_efficiency_pct =
                            SpeedEfficiency(opt.corner_details[opt.i].apex_speed_kmh, v)] ]
  /\ pc' = "o_loop"
  /\ UNCHANGED << cornerVars, lapVars, geomVars, mode, odf >>

\* lines 1132-1137
OptReturn ==
  /\ mode = "optimal" /\ pc = "o_loop"
  /\ opt.i > Len(opt.corner_details)
  /\ pc' = "done"
  /\ UNCHANGED << cornerVars, lapVars, geomVars, mode, odf, opt >>

NextOptimal ==
  \/ OptBegin
  \/ OptCorner
  \/ OptReturn

SpecOptimal == InitOptimal /\ [][NextOptimal]_vars

(***************************************************************************)
(* _resample_adaptive on its own: the arrays of a table of 2..ResPts       *)
(* samples whose cumulative distance starts at 0 or after a skipped lap    *)
(* and grows by gaps of 0, 0.2, 1, 3, 4 or 10 m; lateral_g, speed, time    *)
(* and curvature differ from sample to sample.                             *)
(***************************************************************************)
ResampleGaps == {0, 2, 10, 30, 40, 100}

ResampleStarts == {0, 50}

RECURSIVE GapCum(_, _, _)
GapCum(start, gaps, k) ==
  IF k = 0 THEN start ELSE GapCum(start, gaps, k - 1) + gaps[k]

InitResample ==
  /\ mode = "resample"
  /\ pc = "start"
  /\ \E n \in 2..ResPts : \E start \in ResampleStarts :
       \E gaps \in [1..(n - 1) -> ResampleGaps] :
         df = [k \in 0..(n - 1) |->
                 [cum |-> GapCum(start, gaps, k), g |-> 10 + k, spd |-> 50 + k,
                  t |-> 10 * k, curv |-> 100 + k]]
  /\ rs = NoRs
  /\ expected_corners = None
  /\ laps_analyzed = None
  /\ circ = Empty
  /\ lateral_g = Empty
  /\ curvature_arr = Empty
  /\ lap_boundaries = {}
  /\ zone = Empty
  /\ valid_corners = Empty
  /\ search = NoSearch
  /\ segments = Empty
  /\ clusters = Empty
  /\ rejected = Empty
  /\ corner_details = Empty
  /\ todo = 0
  /\ res = Empty
  /\ attrs = Unset
  /\ raised = FALSE
  /\ caller = NoCaller
  /\ LapsIdle
  /\ GeomIdle
  /\ OptIdle

\* lines 628-692: one call
ResampleCall ==
  /\ mode = "resample" /\ pc = "start"
  /\ rs' = ResampleAdaptive([k \in DOMAIN df |-> df[k].cum],
                            [k \in DOMAIN df |-> df[k].g],
                            [k \in DOMAIN df |-> df[k].spd],
                            [k \in DOMAIN df |-> df[k].t],
                            [k \in DOMAIN df |-> df[k].curv])
  /\ pc' = "done"
  /\ UNCHANGED << caller, lapVars, geomVars, optVars, mode, df, expected_corners,
                  laps_analyzed, circ, lateral_g, curvature_arr, lap_boundaries,
                  zone, valid_corners, search, segments, clusters, rejected,
                  corner_details, todo, res, attrs, raised >>

NextResample == ResampleCall

SpecResample == InitResample /\ [][NextResample]_vars

(***************************************************************************)
(* Sessions whose finish line lies inside a turn: two laps of LapPts       *)
(* samples at 50 Hz, the turn covering the last `before` samples of lap 1  *)
(* and the first `after` samples of lap 2.                                 *)
(***************************************************************************)
LineShape == [dt |-> 2, reaches |-> {0, 12, 16}, spacings |-> {3, 4, 10}]

FinishLineRow(k, sp, before, after) ==
  LET lap == (k \div LapPts) + 1
      o == k % LapPts
      turning == k >= LapPts - before /\ k < LapPts + after
      ph == (k % EventLen) + 1
  IN [ lap |-> lap,
       g |-> IF turning THEN Shape.eventG[ph] ELSE Shape.straightG,
       curv |-> IF turning THEN Shape.eventCurv[ph]
                ELSE (IF k % 2 = 0 THEN 1 ELSE 0),
       spd |-> IF turning THEN Shape.eventSpeed[ph] ELSE Shape.straightSpeed,
       cum |-> k * sp,
       t |-> k * LineShape.dt,
       x |-> o * sp,
       y |-> 0,
       ok |-> TRUE ]

FinishLineTables ==
  { [k \in 0..(2 * LapPts - 1) |-> FinishLineRow(k, sp, a, c)] :
      sp \in LineShape.spacings,
      a \in LineShape.reaches, c \in LineShape.reaches \ {0} }

InitFinishLine ==
  /\ mode = "corners"
  /\ pc = "start"
  /\ df \in FinishLineTables
  /\ expected_corners = None
  /\ laps_analyzed = None
  /\ circ = Empty
  /\ lateral_g = Empty
  /\ curvature_arr = Empty
  /\ lap_boundaries = {}
  /\ rs = NoRs
  /\ zone = Empty
  /\ valid_corners = Empty
  /\ search = NoSearch
  /\ segments = Empty
  /\ clusters = Empty
  /\ rejected = Empty
  /\ corner_details = Empty
  /\ todo = 0
  /\ res = Empty
  /\ attrs = Unset
  /\ raised = FALSE
  /\ caller = NoCaller
  /\ LapsIdle
  /\ GeomIdle
  /\ OptIdle

SpecFinishLine == InitFinishLine /\ [][NextCorners]_vars

(***************************************************************************)
(* _merge_close_runs, _merge_by_min_dist and the window of                 *)
(* apply_savgol_filter called on their own.  The input rows are held in    *)
(* df and the returned value in zone, valid_corners or rs; every other     *)
(* local of detect_corners stays idle.                                     *)
(***************************************************************************)
CallIdle ==
  /\ expected_corners = None
  /\ laps_analyzed = None
  /\ circ = Empty
  /\ lateral_g = Empty
  /\ curvature_arr = Empty
  /\ lap_boundaries = {}
  /\ search = NoSearch
  /\ segments = Empty
  /\ clusters = Empty
  /\ rejected = Empty
  /\ corner_details = Empty
  /\ todo = 0
  /\ res = Empty
  /\ attrs = Unset
  /\ raised = FALSE
  /\ caller = NoCaller
  /\ LapsIdle
  /\ GeomIdle
  /\ OptIdle

\* distances between consecutive samples, in decimetres
MergeGaps == {30, 50, 90}

InitMergeRuns ==
  /\ mode = "merge_runs"
  /\ pc = "start"
  /\ \E n \in 2..MergePts :
       \E gaps \in [1..(n - 1) -> MergeGaps] : \E vote \in [0..(n - 1) -> BOOLEAN] :
         df = [k \in 0..(n - 1) |-> [cum |-> GapCum(0, gaps, k), vote |-> vote[k]]]
  /\ zone = Empty
  /\ rs = NoRs
  /\ valid_corners = Empty
  /\ CallIdle

\* lines 534-563: one call with max_gap_m = 8.0
MergeRunsCall ==
  /\ mode = "merge_runs" /\ pc = "start"
  /\ zone' = MergeCloseRuns([k \in DOMAIN df |-> df[k].vote],
                            [k \in DOMAIN df |-> df[k].cum], 1, MAX_GAP_M)
  /\ pc' = "done"
  /\ UNCHANGED << caller, lapVars, geomVars, optVars, mode, df, expected_corners,
                  laps_analyzed, circ, lateral_g, curvature_arr, lap_boundaries,
                  rs, valid_corners, search, segments, clusters, rejected,
                  corner_details, todo, res, attrs, raised >>

NextMergeRuns == MergeRunsCall

SpecMergeRuns == InitMergeRuns /\ [][NextMergeRuns]_vars

(***************************************************************************)
(* apply_savgol_filter (core/signal_processing.py): the checks on the      *)
(* input and the choice of window_length and polyorder.  The input is a    *)
(* table of `rows` rows of which `valid` have a latitude and a longitude;  *)
(* rate is the sampling rate in Hz that the time column gives (0 when the  *)
(* mean time step is not positive), None when there is no time column.     *)
(***************************************************************************)
SampleRates == {None, 0, 1, 8, 10, 25, 100}

LostRows == {0, 3}

\* lines 131-145: the window before it is made odd
ClampedWindow(n_points, rate) ==
  IF rate # None
  THEN LET avg_sample_rate == IF rate > 0 THEN rate ELSE DEFAULT_SAMPLE_RATE
           window_length == (avg_sample_rate * WINDOW_SECONDS_X2) \div 2
       IN Max2(MIN_WINDOW, Min2(window_length, n_points \div DATA_SHARE))
  ELSE Max2(MIN_WINDOW, Min2(FALLBACK_WINDOW, n_points \div DATA_SHARE))

\* the window left as lines 131-145 clamp it
WindowLengthClampedOnly(n_points, rate) == ClampedWindow(n_points, rate)

\* lines 131-155
WindowLength(n_points, rate) ==
  LET w0 == ClampedWindow(n_points, rate)
      w1 == IF w0 % 2 = 0 THEN w0 + 1 ELSE w0
  IN IF w1 >= n_points
     THEN Max2(SHORT_WINDOW,
               IF (n_points - 1) % 2 = 1 THEN n_points - 1 ELSE n_points - 2)
     ELSE w1

\* lines 158-162
Polyorder(window_length) ==
  IF POLYORDER >= window_length THEN Max2(MIN_POLYORDER, window_length - 1)
  ELSE POLYORDER

InitSavgol ==
  /\ mode = "savgol"
  /\ pc = "start"
  /\ \E valid \in (MIN_GPS_POINTS - 2)..SavgolPts :
       \E lost \in LostRows : \E rate \in SampleRates :
         sg = [rows |-> valid + lost, valid |-> valid, rate |-> rate,
               window_length |-> None, polyorder |-> None]
  /\ gdf = Empty
  /\ gcols = {}
  /\ geom = Empty
  /\ CornersIdle
  /\ LapsIdle
  /\ OptIdle

\* lines 100-101 and 122-123: ValueError
SavgolReject ==
  /\ mode = "savgol" /\ pc = "start"
  /\ sg.rows < MIN_GPS_POINTS \/ sg.valid < MIN_GPS_POINTS
  /\ pc' = "value_error"
  /\ UNCHANGED << cornerVars, lapVars, geomVars, optVars, mode >>

\* lines 128-162
SavgolParameters ==
  /\ mode = "savgol" /\ pc = "start"
  /\ sg.rows >= MIN_GPS_POINTS /\ sg.valid >= MIN_GPS_POINTS
  /\ \E w \in {WindowLength(sg.valid, IF sg.rows > 1 THEN sg.rate ELSE None)} :
       sg' = [sg EXCEPT !.window_length = w, !.polyorder = Polyorder(w)]
  /\ pc' = "done"
  /\ UNCHANGED << cornerVars, lapVars, optVars, mode, gdf, gcols, geom >>

NextSavgol == SavgolReject \/ SavgolParameters

SpecSavgol == InitSavgol /\ [][NextSavgol]_vars

(***************************************************************************)
(* _merge_by_min_dist called on its own: a list of runs over a resampled   *)
(* grid, mapped back to the samples of df_circuit one to one or two grid   *)
(* points to a sample, is merged twice, the second time with a min_d at    *)
(* least as large.  caller holds what each call was given and returned.    *)
(***************************************************************************)
MinDistGaps == {20, 60}

\* min_d in decimetres; 0 makes the function return its input (line 830)
MinDs == {0, 30, 70}

GridShares == {1, 2}

NoMerge == [calls |-> 0, min_d |-> 0, m |-> <<>>, first_min_d |-> 0, first_m |-> <<>>]

RunList(vote, orig) ==
  LET runs == Runs(vote)
  IN [q \in 1..Len(runs) |->
        RunCorner([orig |-> orig], runs[q], q, [k \in DOMAIN vote |-> 0])]

InitMergeByMinDist ==
  /\ mode = "merge_by_min_dist"
  /\ pc = "start"
  /\ \E n \in 2..MinDistPts :
       \E gaps \in [1..(n - 1) -> MinDistGaps] : \E vote \in [0..(n - 1) -> BOOLEAN] :
       \E share \in GridShares :
         /\ df = [k \in 0..(n - 1) |-> [cum |-> GapCum(0, gaps, k)]]
         /\ zone = vote
         /\ rs = [n |-> n, orig |-> [i \in 0..(n - 1) |-> i \div share]]
         /\ valid_corners = RunList(vote, [i \in 0..(n - 1) |-> i \div share])
         /\ lap_boundaries \in {{}} \cup {{b} : b \in 1..(n - 1)}
  /\ caller = NoMerge
  /\ expected_corners = None
  /\ laps_analyzed = None
  /\ circ = Empty
  /\ lateral_g = Empty
  /\ curvature_arr = Empty
  /\ search = NoSearch
  /\ segments = Empty
  /\ clusters = Empty
  /\ rejected = Empty
  /\ corner_details = Empty
  /\ todo = 0
  /\ res = Empty
  /\ attrs = Unset
  /\ raised = FALSE
  /\ LapsIdle
  /\ GeomIdle
  /\ OptIdle

\* lines 828-856: one call; the second call's min_d is not below the first's
MergeByMinDistCall ==
  /\ mode = "merge_by_min_dist" /\ pc \in {"start", "merged"}
  /\ \E min_d \in MinDs :
       /\ min_d >= caller.min_d
       /\ caller' = [calls |-> caller.calls + 1,
                     min_d |-> min_d,
                     m |-> MergeByMinDist(valid_corners,
                                          [k \in DOMAIN df |-> df[k].cum],
                                          min_d * MidDen, lap_boundaries),
                     first_min_d |-> caller.min_d,
                     first_m |-> caller.m]
  /\ pc' = IF pc = "start" THEN "merged" ELSE "done"
  /\ UNCHANGED << lapVars, geomVars, optVars, mode, df, expected_corners,
                  laps_analyzed, circ, lateral_g, curvature_arr, lap_boundaries,
                  rs, zone, valid_corners, search, segments, clusters, rejected,
                  corner_details, todo, res, attrs, raised >>

NextMergeByMinDist == MergeByMinDistCall

SpecMergeByMinDist == InitMergeByMinDist /\ [][NextMergeByMinDist]_vars

(***************************************************************************)
(* Properties.                                                             *)
(***************************************************************************)
\* the distinct laps among the per-lap entries of a Corner record
CornerLaps(corner) ==
  {corner.per_lap_data[q].lap : q \in 1..Len(corner.per_lap_data)}

\* the Corner records the caller receives
Returned == attrs.corner_details

\* C1: a cluster of per-lap instances is retained as a Corner if and only if
\* the number of distinct laps among its instances is at least
\* max(1, floor(laps_analyzed / 2)), and no Corner of the result was seen in
\* fewer laps than that.
C1_RetainedIffHalfFloor ==
  LET th == IF laps_analyzed \div 2 >= 1 THEN laps_analyzed \div 2 ELSE 1
  IN /\ (mode = "corners" /\ pc = "clustered") =>
          /\ \A q \in 1..Len(clusters) : LapsInCluster(clusters[q]) >= th
          /\ \A q \in 1..Len(rejected) : LapsInCluster(rejected[q]) < th
          /\ Len(clusters) + Len(rejected) = Len(BuildClusters(segments, 0).kept)
     /\ (mode = "corners" /\ pc = "done") =>
          \A n \in 1..Len(Returned) : Cardinality(CornerLaps(Returned[n])) >= th

\* C1 witness: the clustering kept one cluster and dropped another
C1_Witness ==
  /\ mode = "corners" /\ pc = "clustered"
  /\ clusters # <<>>
  /\ rejected # <<>>

\* C2, as the specification states it: for N >= 2 analysed laps a turn event
\* detected in exactly ceil(N/2) - 1 laps is not confirmed and one detected
\* in exactly ceil(N/2) laps is confirmed.
C2_CeilHalfRule ==
  (mode = "corners" /\ pc = "clustered" /\ laps_analyzed >= 2) =>
     LET c == (laps_analyzed + 1) \div 2
     IN /\ \A q \in 1..Len(clusters) : LapsInCluster(clusters[q]) # c - 1
        /\ \A q \in 1..Len(rejected) : LapsInCluster(rejected[q]) # c

\* C2, amended: for N >= 2 analysed laps a turn event detected in exactly
\* floor(N/2) - 1 laps is not confirmed and one detected in exactly
\* floor(N/2) laps is confirmed; for odd N the event seen in
\* ceil(N/2) - 1 = floor(N/2) laps is therefore confirmed.
C2_FloorHalfRule ==
  (mode = "corners" /\ pc = "clustered" /\ laps_analyzed >= 2) =>
     LET f == laps_analyzed \div 2
     IN /\ \A q \in 1..Len(clusters) : LapsInCluster(clusters[q]) # f - 1
        /\ \A q \in 1..Len(rejected) : LapsInCluster(rejected[q]) # f
        /\ (laps_analyzed % 2 = 1) =>
              \A q \in 1..Len(rejected) :
                 LapsInCluster(rejected[q]) # (laps_analyzed + 1) \div 2 - 1

\* C2 witness: five laps analysed, an event seen in two laps is kept and an
\* event seen in one lap is dropped
C2_Witness ==
  /\ mode = "corners" /\ pc = "clustered"
  /\ laps_analyzed = 5
  /\ \E q \in 1..Len(clusters) : LapsInCluster(clusters[q]) = 2
  /\ \E q \in 1..Len(rejected) : LapsInCluster(rejected[q]) = 1

\* C3: after detect_corners on a table with a lap_number column, every
\* sample of lap 0 has is_corner false, corner_id 0 and is_apex false, and no
\* per-lap instance of a Corner contains a lap-0 sample, whatever the number
\* of samples with lap_number >= 1.
C3_LapZeroNeverLabelled ==
  (mode = "corners" /\ pc = "done" /\ ~raised /\ HasLaps(df)) =>
     /\ \A k \in DOMAIN df :
          df[k].lap = 0 =>
            ~res[k].is_corner /\ res[k].corner_id = 0 /\ ~res[k].is_apex
     /\ \A n \in 1..Len(Returned) :
          \A q \in 1..Len(Returned[n].per_lap_data) :
             \A k \in Returned[n].per_lap_data[q].samples : df[k].lap # 0

\* C4: with a non-empty ascending beacon list every sample's lap_number is
\* the number of beacons whose time is <= the sample's time.
C4_BeaconLapIsCount ==
  (/\ mode = "laps" /\ pc = "done"
   /\ beacon_markers # <<>>
   /\ \A a, b \in 1..Len(beacon_markers) :
         a < b => beacon_markers[a] <= beacon_markers[b]) =>
     /\ method = "beacon_markers"
     /\ \A k \in DOMAIN track :
          lap_number[k] =
            Cardinality({j \in 1..Len(beacon_markers) :
                           beacon_markers[j] <= track[k].t})

\* C4 witness: an ascending list of at least two beacons, a sample before the
\* first beacon, a sample on a beacon time and a sample in the last lap
C4_Witness ==
  /\ mode = "laps" /\ pc = "done"
  /\ Len(beacon_markers) >= 2
  /\ \A a, b \in 1..Len(beacon_markers) :
        a < b => beacon_markers[a] < beacon_markers[b]
  /\ \E k \in DOMAIN track : lap_number[k] = 0
  /\ \E k \in DOMAIN track : lap_number[k] = Len(beacon_markers)
  /\ \E k \in DOMAIN track :
        \E j \in 1..Len(beacon_markers) : beacon_markers[j] = track[k].t

\* C5: every returned Corner has at most one per_lap_data entry per lap
\* number, and its confirmed_in_laps is the number of distinct laps in which
\* the corner was seen.
C5_OneEntryPerLap ==
  (mode = "corners" /\ pc = "done") =>
     \A n \in 1..Len(Returned) :
        /\ \A p, q \in 1..Len(Returned[n].per_lap_data) :
              p # q => Returned[n].per_lap_data[p].lap # Returned[n].per_lap_data[q].lap
        /\ Returned[n].confirmed_in_laps = Cardinality(CornerLaps(Returned[n]))

\* C6, as the specification states it: any two per-lap instances grouped
\* into the same Corner have apex positions less than 30 m apart.
C6_PairwiseWithinRadius ==
  (mode = "corners" /\ pc = "done") =>
     \A n \in 1..Len(Returned) :
        \A p, q \in 1..Len(Returned[n].per_lap_data) :
           LET a == Returned[n].per_lap_data[p].apex
               b == Returned[n].per_lap_data[q].apex
           IN DistSq(a.x, a.y, b.x, b.y) < 300 * 300

\* C6, amended: every per-lap instance of a Corner has its apex position
\* less than 30 m from the apex of the Corner's first instance, so any two
\* instances are less than 60 m apart.
C6_WithinRadiusOfFirst ==
  (mode = "corners" /\ pc = "done") =>
     \A n \in 1..Len(Returned) :
        \A p, q \in 1..Len(Returned[n].per_lap_data) :
           LET f == Returned[n].per_lap_data[1].apex
               a == Returned[n].per_lap_data[p].apex
               b == Returned[n].per_lap_data[q].apex
           IN /\ f.ok /\ a.ok
              /\ DistSq(f.x, f.y, a.x, a.y) < 300 * 300
              /\ DistSq(a.x, a.y, b.x, b.y) < 600 * 600

\* C6 witness: a Corner with three instances, two of them 30 m or more apart
C6_Witness ==
  /\ mode = "corners" /\ pc = "done"
  /\ \E n \in 1..Len(Returned) :
        /\ Len(Returned[n].per_lap_data) >= 3
        /\ \E p, q \in 2..Len(Returned[n].per_lap_data) :
              LET a == Returned[n].per_lap_data[p].apex
                  b == Returned[n].per_lap_data[q].apex
              IN DistSq(a.x, a.y, b.x, b.y) >= 300 * 300

\* the key a Corner is sorted by when every lap counts from its first index:
\* twice the median of (entry_index - first index of the entry's lap)
MedianRelativeEntry2(corner) ==
  LET pl == corner.per_lap_data
      FirstOfLap(l) ==
        IF HasLaps(df) THEN SetMin({k \in DOMAIN df : df[k].lap = l}) ELSE 0
  IN Median2([q \in 1..Len(pl) |-> pl[q].entry_index - FirstOfLap(pl[q].lap)])

\* twice the smallest entry_index among the per-lap entries of a Corner
FirstEntry2(corner) ==
  2 * SetMin({corner.per_lap_data[q].entry_index :
                q \in 1..Len(corner.per_lap_data)})

\* the Corners whose per-lap instances contain sample k
Owners(k) ==
  {n \in 1..Len(Returned) :
     \E q \in 1..Len(Returned[n].per_lap_data) :
        k \in Returned[n].per_lap_data[q].samples}

\* ids are 1..N in list order and every in-corner sample carries the id of
\* the Corner whose per-lap instance contains it
IdsAndSamplesAgree ==
  /\ \A n \in 1..Len(Returned) : Returned[n].id = n
  /\ \A k \in DOMAIN res :
        IF res[k].is_corner THEN Owners(k) = {res[k].corner_id}
        ELSE Owners(k) = {}

UnmergedRuns == ValidCorners(rs, zone, lateral_g, MIN_LATERAL_G_DEFAULT)

Thresholds == {k * MidDen : k \in SEARCH_LO..SEARCH_HI}

\* C8: when expected_corners >= 1 is supplied and some threshold in
\* [3, 40] m merges the runs to exactly expected_corners, the search ends
\* with exactly expected_corners runs.
C8_SearchFindsThreshold ==
  (mode = "corners" /\ pc = "merged" /\ expected_corners # None
   /\ expected_corners >= 1) =>
     ((\E th \in Thresholds :
          Len(MergeByMinDist(UnmergedRuns, CircCum, th, lap_boundaries))
            = expected_corners)
        => Len(valid_corners) = expected_corners)

\* C9: when an exception is raised inside the detection block, the call
\* returns attrs['corners'] with zero corners and a table in which no sample
\* is labelled as a corner.
C9_ExceptionLeavesNoLabel ==
  (mode = "corners" /\ pc = "done" /\ raised) =>
     /\ attrs.total_corners = 0
     /\ attrs.corner_details = <<>>
     /\ \A k \in DOMAIN res :
          /\ ~res[k].is_corner
          /\ res[k].corner_id = 0
          /\ ~res[k].is_apex
          /\ res[k].corner_type = "straight"

\* the first index that starts more than 50 consecutive samples above
\* 40 km/h, None when the table has no such run
FastRunStart ==
  LET S == {s \in DOMAIN track :
              /\ s + 50 \in DOMAIN track
              /\ \A k \in s..(s + 50) : track[k].spd > 40}
  IN IF S = {} THEN None ELSE SetMin(S)

\* the track covers min_lap_distance_m past the start of the fast run
CoversLapDistance ==
  \E k \in FastRunStart..(Size(track) - 1) :
     track[k].cum >= track[FastRunStart].cum + min_lap_distance_m

\* C10: in the GPS fallback the whole session gets lap_number 1 only when
\* there is no run of more than 50 consecutive samples above 40 km/h or the
\* track never covers min_lap_distance_m past the start of that run;
\* otherwise laps are numbered by finish-line crossings starting from 0.
C10_SingleLapOnlyWithoutPitExit ==
  (mode = "laps" /\ pc = "done" /\ beacon_markers = <<>>) =>
     IF FastRunStart # None /\ CoversLapDistance
     THEN /\ method = "gps_clustering"
          /\ lap_number[0] = 0
          /\ \E k \in DOMAIN track : lap_number[k] # 1
     ELSE \A k \in DOMAIN track : lap_number[k] = 1

(***************************************************************************)
(* The GPS lap counter, read off the lap_number column while the loop of   *)
(* lines 500-519 fills it.                                                 *)
(***************************************************************************)
\* the counter written at sample k, and the one written before it
LapBefore(k) == IF k = 0 THEN 0 ELSE lap_number[k - 1]

IncrementAt(k) == lap_number[k] # LapBefore(k)

\* the samples before k at which the counter rose
IncrementsBefore(k) == {j \in 0..(k - 1) : IncrementAt(j)}

\* C11: in the GPS fallback the counter never decreases and rises by at most
\* one per sample; it rises only at a sample within 25 m of the finish point,
\* faster than 30 km/h and more than 0.3 x min_lap_distance_m after the
\* previous rise; between two consecutive rises some sample is farther than
\* 62.5 m from the finish point.
C11_LapCounterDebounced ==
  (mode = "laps" /\ pc = "loop") =>
    \A k \in 0..(lap_i - 1) :
      /\ lap_number[k] \in {LapBefore(k), LapBefore(k) + 1}
      /\ IncrementAt(k) =>
           /\ NearFinish(track[k], track[candidate_idx])
           /\ track[k].spd > CROSSING_SPEED
           /\ IncrementsBefore(k) # {} =>
                \E j \in {SetMax(IncrementsBefore(k))} :
                  /\ 10 * (track[k].cum - track[j].cum) > 3 * min_lap_distance_m
                  /\ \E m \in (j + 1)..(k - 1) :
                       FarFromFinish(track[m], track[candidate_idx])

\* the counter has risen twice, and a fast sample inside the finish zone,
\* far enough along the lap, was held back by the debounce alone
C11_Witness ==
  /\ mode = "laps" /\ pc = "loop"
  /\ Cardinality(IncrementsBefore(lap_i)) >= 2
  /\ \E k \in 0..(lap_i - 1) :
       /\ ~IncrementAt(k)
       /\ IncrementsBefore(k) # {}
       /\ IsCrossingNoDebounce(track[k], track[candidate_idx],
                               track[SetMax(IncrementsBefore(k))].cum,
                               min_lap_distance_m, TRUE)

(***************************************************************************)
(* The columns of calculate_trajectory_geometry.                           *)
(***************************************************************************)
\* the stages after which a column of the geometry engine is written
DistanceWritten ==
  mode = "geometry"
    /\ pc \in {"g_distance", "g_heading", "g_curvature", "g_lateral", "done"}

HeadingWritten ==
  mode = "geometry" /\ pc \in {"g_heading", "g_curvature", "g_lateral", "done"}

\* C12: for an input of at least 3 rows (positions lost or repeated
\* included) segment_distance is >= 0 at every sample and 0 at sample 0, and
\* cumulative_distance is its running sum, hence non-decreasing.
C12_DistanceMonotone ==
  DistanceWritten =>
    /\ Size(gdf) >= MIN_ROWS
    /\ DOMAIN geom.segment_distance = DOMAIN gdf
    /\ DOMAIN geom.cumulative_distance = DOMAIN gdf
    /\ geom.segment_distance[0] = 0
    /\ geom.cumulative_distance[0] = 0
    /\ \A i \in 1..(Size(gdf) - 1) :
         /\ geom.segment_distance[i] >= 0
         /\ geom.cumulative_distance[i]
              = geom.cumulative_distance[i - 1] + geom.segment_distance[i]
         /\ geom.cumulative_distance[i] >= geom.cumulative_distance[i - 1]

\* a recording with a lost position, filled by the previous one so that a
\* segment is 0, and with distance covered after it
C12_Witness ==
  /\ DistanceWritten
  /\ \E k \in 1..(Size(gdf) - 2) :
       /\ gdf[k].nan
       /\ geom.segment_distance[k] = 0
       /\ geom.cumulative_distance[k + 1] > geom.cumulative_distance[k]

\* the signed angle from heading a to heading b by the shorter way round, in
\* (-180, 180] degrees
ShortestSigned(a, b) ==
  LET m == (b - a) % FULL_TURN
  IN IF m > HALF_TURN THEN m - FULL_TURN ELSE m

\* the samples at which line 271 is reached
UsesHeadingChange(i) ==
  /\ i \in 1..(Size(gdf) - 2)
  /\ geom.speed[i] >= SPEED_FLOOR
  /\ geom.segment_distance[i] + geom.segment_distance[i + 1] >= 1

\* the unwrapped change from sample i-1 to i+1, with its sign
UnwrappedChange(i) ==
  WrapDiff(geom.heading[i] - geom.heading[i - 1])
    + WrapDiff(geom.heading[i + 1] - geom.heading[i])

\* C13: the heading change between samples i-1 and i+1 used for the
\* curvature magnitude is the absolute value of the shortest signed angular
\* difference of the two headings, never above 180 degrees, and its
\* direction agrees with the wrapped difference used for the sign.
C13_ChangeIsShortestDifference ==
  HeadingWritten =>
    \A i \in 1..(Size(gdf) - 2) :
      UsesHeadingChange(i) =>
        /\ DeltaHeading(geom.heading[i - 1], geom.heading[i], geom.heading[i + 1])
             = Abs(ShortestSigned(geom.heading[i - 1], geom.heading[i + 1]))
        /\ DeltaHeading(geom.heading[i - 1], geom.heading[i], geom.heading[i + 1])
             <= HALF_TURN
        /\ UnwrappedChange(i) # 0 =>
             Sign(UnwrappedChange(i))
               = CurvatureSign(geom.heading[i - 1], geom.heading[i + 1])

\* the turn of the recorded path at sample k: the cross product of the step
\* into k and the step out of k, positive for a turn to the left
TurnAt(k) ==
  (gdf[k].x - gdf[k - 1].x) * (gdf[k + 1].y - gdf[k].y)
    - (gdf[k].y - gdf[k - 1].y) * (gdf[k + 1].x - gdf[k].x)

\* every sample is recorded, faster than 5 km/h
CleanRecording ==
  \A k \in DOMAIN gdf : ~gdf[k].nan /\ gdf[k].spd > SPEED_FLOOR

LateralGWritten == mode = "geometry" /\ pc \in {"g_lateral", "done"}

\* C14: on a path that turns left at every step at more than 5 km/h,
\* curvature and lateral_g are positive at the interior samples; on a path
\* that turns right at every step they are negative.
C14_SignFollowsTurn ==
  (LateralGWritten /\ CleanRecording) =>
    /\ (\A k \in 1..(Size(gdf) - 2) : TurnAt(k) > 0) =>
         \A i \in 1..(Size(gdf) - 2) :
           geom.curvature[i] > 0 /\ geom.lateral_g[i] > 0
    /\ (\A k \in 1..(Size(gdf) - 2) : TurnAt(k) < 0) =>
         \A i \in 1..(Size(gdf) - 2) :
           geom.curvature[i] < 0 /\ geom.lateral_g[i] < 0

\* the input's throttle and brake columns
InputThrottle == [i \in DOMAIN gdf |-> gdf[i].throttle]

InputBrake == [i \in DOMAIN gdf |-> gdf[i].brake]

\* C15: an input throttle column and an input brake column are left
\* unchanged whenever that column is present in the input; estimated values
\* are written only for a column that is absent.
C15_PresentPedalColumnKept ==
  (mode = "geometry" /\ pc = "done") =>
    /\ "throttle" \in gcols => geom.throttle = InputThrottle
    /\ "brake" \in gcols => geom.brake = InputBrake
    /\ "throttle" \notin gcols =>
         geom.throttle = [i \in DOMAIN gdf |-> InferredThrottle(geom.speed, i)]
    /\ "brake" \notin gcols =>
         geom.brake = [i \in DOMAIN gdf |-> InferredBrake(geom.speed, i)]

\* every step of the recording goes the same way (dx east, dy north)
StraightAlong(dx, dy) ==
  /\ \A k \in DOMAIN gdf : ~gdf[k].nan
  /\ \A k \in 1..(Size(gdf) - 1) :
       gdf[k].x - gdf[k - 1].x = dx /\ gdf[k].y - gdf[k - 1].y = dy

HeadingIs(deg) ==
  \A i \in 1..(Size(gdf) - 1) : geom.heading[i] = (FULL_TURN \div 360) * deg

\* C19: the heading of a moving sample is a compass bearing in [0, 360):
\* 0 degrees for motion due north, 90 due east, 180 due south, 270 due west.
C19_HeadingIsCompassBearing ==
  HeadingWritten =>
    /\ \A i \in DOMAIN gdf : geom.heading[i] >= 0 /\ geom.heading[i] < FULL_TURN
    /\ StraightAlong(0, PathShape.step) => HeadingIs(0)
    /\ StraightAlong(PathShape.step, 0) => HeadingIs(90)
    /\ StraightAlong(0, -PathShape.step) => HeadingIs(180)
    /\ StraightAlong(-PathShape.step, 0) => HeadingIs(270)

\* C19, amended: the heading of a moving sample is an angle in [0, 360)
\* measured counter-clockwise from east: 0 degrees for motion due east, 90
\* due north, 180 due west, 270 due south.
C19_HeadingIsAngleFromEast ==
  HeadingWritten =>
    /\ \A i \in DOMAIN gdf : geom.heading[i] >= 0 /\ geom.heading[i] < FULL_TURN
    /\ StraightAlong(PathShape.step, 0) => HeadingIs(0)
    /\ StraightAlong(0, PathShape.step) => HeadingIs(90)
    /\ StraightAlong(-PathShape.step, 0) => HeadingIs(180)
    /\ StraightAlong(0, -PathShape.step) => HeadingIs(270)

\* a recording driven due north throughout, its heading written as 90
C19_Witness ==
  /\ HeadingWritten
  /\ Size(gdf) = GeomPts
  /\ StraightAlong(0, PathShape.step)
  /\ HeadingIs(90)

(***************************************************************************)
(* The results of calculate_optimal_trajectory.                            *)
(***************************************************************************)
\* the Corners the loop has visited
OptVisited == 1..(opt.i - 1)

\* the samples of the Corner with this id that carry a curvature
OptSamples(id) ==
  {k \in DOMAIN odf.rows :
     odf.rows[k].corner_id = id /\ odf.rows[k].curvature # NaN}

OptAbsSum(id) == AbsSum(odf.rows, OptSamples(id))

\* the speed derived from the mean absolute curvature of the Corner lies
\* strictly between 30 and 150 km/h: 900 < 1398513.6 cnt / sum < 22500
SpeedStrictlyInBand(id) ==
  /\ OptSamples(id) # {}
  /\ OptAbsSum(id) > 0
  /\ 9000 * OptAbsSum(id) < 13985136 * Cardinality(OptSamples(id))
  /\ 13985136 * Cardinality(OptSamples(id)) < 225000 * OptAbsSum(id)

\* C16: an optimal apex speed and a speed efficiency are recorded for a
\* Corner, and optimal_speed_kmh on that Corner's samples, only when the
\* speed derived from the Corner's mean absolute curvature lies strictly
\* between 30 and 150 km/h; otherwise they stay unset, never clamped into
\* the band, and samples outside every Corner always stay unset.
C16_OptimalOnlyInBand ==
  (mode = "optimal" /\ pc \in {"o_loop", "done"}) =>
    /\ \A q \in OptVisited :
         LET info == opt.corner_details[q]
         IN /\ info.optimal_apex_speed_kmh # None <=> SpeedStrictlyInBand(info.id)
            /\ info.speed_efficiency_pct # None <=> SpeedStrictlyInBand(info.id)
            /\ info.optimal_apex_speed_kmh # None =>
                 /\ info.optimal_apex_speed_kmh \in 300..1499
                 /\ info.optimal_apex_speed_kmh
                      * info.optimal_apex_speed_kmh * OptAbsSum(info.id)
                      <= V10_SQ * Cardinality(OptSamples(info.id))
            /\ \A k \in DOMAIN odf.rows :
                 odf.rows[k].corner_id = info.id =>
                   opt.optimal_speed_kmh[k]
                     = (IF SpeedStrictlyInBand(info.id)
                        THEN info.optimal_apex_speed_kmh ELSE NaN)
    /\ \A k \in DOMAIN odf.rows :
         (\A q \in OptVisited : opt.corner_details[q].id # odf.rows[k].corner_id)
           => opt.optimal_speed_kmh[k] = NaN

\* the function returned with a speed recorded for one Corner and another
\* Corner left unset because its speed is outside the band
C16_Witness ==
  /\ mode = "optimal" /\ pc = "done"
  /\ \E q1, q2 \in 1..Len(opt.corner_details) :
       /\ opt.corner_details[q1].optimal_apex_speed_kmh # None
       /\ opt.corner_details[q2].optimal_apex_speed_kmh = None
       /\ OptSamples(q2) # {}
       /\ OptAbsSum(q2) > Cardinality(OptSamples(q2))
       /\ 13985136 * Cardinality(OptSamples(q2)) >= 225000 * OptAbsSum(q2)

(***************************************************************************)
(* The output of _resample_adaptive.                                       *)
(***************************************************************************)
\* the positive gaps between consecutive input samples, and their sum
InputGaps == {i \in 1..(Size(df) - 1) : df[i].cum > df[i - 1].cum}

RECURSIVE GapSum(_)
GapSum(S) ==
  IF S = {} THEN 0
  ELSE df[SetMin(S)].cum - df[SetMin(S) - 1].cum + GapSum(S \ {SetMin(S)})

\* the average spacing is within [0.5 m, 3 m]
MidDensity ==
  /\ InputGaps # {}
  /\ DENSE_SPACING * Cardinality(InputGaps) <= GapSum(InputGaps)
  /\ GapSum(InputGaps) <= SPARSE_SPACING * Cardinality(InputGaps)

FirstReturned == caller.attrs.corner_details

SameLabels ==
  /\ DOMAIN res = DOMAIN caller.res
  /\ \A k \in DOMAIN res : res[k] = caller.res[k]

InstanceLaps(inst) == {df[k].lap : k \in inst.samples}

\* C20: every per-lap corner instance detect_corners returns holds samples
\* of one lap only.
C20_InstanceWithinOneLap ==
  (mode = "corners" /\ pc = "done" /\ ~raised) =>
     \A n \in 1..Len(Returned) :
        \A q \in 1..Len(Returned[n].per_lap_data) :
           Cardinality(InstanceLaps(Returned[n].per_lap_data[q])) <= 1

\* positions a < b of the input vote such that a run ends at a, the next run
\* starts at b and every sample between them is unset
ConsecutiveRuns(a, b) ==
  /\ a \in DOMAIN df /\ b \in DOMAIN df /\ a + 1 < b
  /\ df[a].vote /\ df[b].vote
  /\ \A x \in (a + 1)..(b - 1) : ~df[x].vote

Joined(a, b) == \A x \in (a + 1)..(b - 1) : zone[x]

Untouched(a, b) == \A x \in (a + 1)..(b - 1) : ~zone[x]

\* nothing set is cleared, nothing is set outside the span of the runs
KeepsVotes ==
  /\ DOMAIN zone = DOMAIN df
  /\ \A x \in DOMAIN df : df[x].vote => zone[x]
  /\ \A x \in DOMAIN df :
        (zone[x] /\ ~df[x].vote) =>
           /\ \E a \in 0..(x - 1) : df[a].vote
           /\ \E b \in DOMAIN df : b > x /\ df[b].vote

\* C21: _merge_close_runs joins two consecutive runs exactly when the arc
\* length from the last sample of the earlier run to the first sample of the
\* later run is at most 8 m; it clears nothing and sets nothing outside the
\* runs.
C21_JoinedIffRunsWithinGap ==
  (mode = "merge_runs" /\ pc = "done") =>
     /\ KeepsVotes
     /\ \A a, b \in DOMAIN df :
           ConsecutiveRuns(a, b) =>
              IF df[b].cum - df[a].cum <= MAX_GAP_M THEN Joined(a, b)
              ELSE Untouched(a, b)

\* C21 as the code has it: the arc length is taken from the first unset
\* sample after the earlier run to the first sample of the later run.
C21_JoinedIffGapWithin ==
  (mode = "merge_runs" /\ pc = "done") =>
     /\ KeepsVotes
     /\ \A a, b \in DOMAIN df :
           ConsecutiveRuns(a, b) =>
              IF df[b].cum - df[a + 1].cum <= MAX_GAP_M THEN Joined(a, b)
              ELSE Untouched(a, b)

C21_Witness ==
  /\ mode = "merge_runs" /\ pc = "done"
  /\ \E a, b \in DOMAIN df :
        /\ ConsecutiveRuns(a, b)
        /\ df[b].cum - df[a + 1].cum <= MAX_GAP_M
        /\ df[b].cum - df[a].cum > MAX_GAP_M
        /\ Joined(a, b)
  /\ \E a, b \in DOMAIN df : ConsecutiveRuns(a, b) /\ Untouched(a, b)

\* the sum of the input curvature over the samples of one per-lap instance;
\* its sign is the sign of the mean
InstanceCurvature(inst) ==
  LET ks == SortedSeq(inst.samples)
  IN SumSeq([q \in 1..Len(ks) |-> df[ks[q]].curv])

TypeOfSign(c) == IF c > 0 THEN "left" ELSE "right"

\* C22: the type of every Corner, and the corner_type of every in-corner
\* sample, is 'left' when the mean curvature over the sample's own run is
\* positive and 'right' when it is negative, also for a Corner made of
\* several per-lap instances.
C22_TypeIsSignOfOwnRun ==
  (mode = "corners" /\ pc = "done" /\ ~raised) =>
     \A n \in 1..Len(Returned) :
        \A q \in 1..Len(Returned[n].per_lap_data) :
           LET inst == Returned[n].per_lap_data[q]
               c == InstanceCurvature(inst)
           IN c # 0 =>
                /\ Returned[n].type = TypeOfSign(c)
                /\ \A k \in inst.samples :
                      res[k].corner_id = Returned[n].id =>
                         res[k].corner_type = TypeOfSign(c)

\* every per-lap instance of the Corners in a list of Corner records
InstancesOf(details) ==
  UNION {SeqSet(details[n].per_lap_data) : n \in 1..Len(details)}

\* lateral_g as the detection uses it (reset within 8 rows of a lap boundary,
\* lines 750-757) at the row of df_circuit with index label k
UsedG(k) == lateral_g[CHOOSE i \in DOMAIN circ : circ[i] = k]

\* the apex sample belongs to the instance, has the largest |lateral_g| of
\* its samples and is flagged
ApexAtMaxG(inst) ==
  /\ inst.apex_index \in inst.samples
  /\ \A k \in inst.samples : Abs(UsedG(k)) <= Abs(UsedG(inst.apex_index))
  /\ res[inst.apex_index].is_apex

Positioned(inst) == {k \in inst.samples : df[k].ok}

\* the Corner records and labels are final and the locals still in scope
AboutToReturn == mode = "corners" /\ pc = "renumbered"

CurvatureWritten ==
  mode = "geometry" /\ pc \in {"g_curvature", "g_lateral", "done"}

\* C24: in the curvature column calculate_trajectory_geometry returns, every
\* sample whose speed is below 5 km/h has curvature exactly 0.
C24_SlowSampleHasNoCurvature ==
  CurvatureWritten =>
     \A k \in DOMAIN geom.curvature :
        geom.speed[k] < SPEED_FLOOR => geom.curvature[k] = 0

WindowChosen == mode = "savgol" /\ pc = "done"

\* C25: for every count n >= 10 of valid GPS points and every sampling rate
\* the window chosen by apply_savgol_filter is odd and lies in
\* [11, max(11, n/10)].
C25_WindowOddAndClamped ==
  WindowChosen =>
     /\ sg.window_length % 2 = 1
     /\ MIN_WINDOW <= sg.window_length
     /\ DATA_SHARE * sg.window_length <= Max2(DATA_SHARE * MIN_WINDOW, sg.valid)

\* C25 as the code has it: the window is odd; from 12 valid points on it is
\* at least 11 and at most one above max(11, n div 10), the excess being the
\* step that makes an even clamped window odd; with 10 or 11 valid points it
\* is 9, the largest odd number below the count.
C25_WindowOddNearClamp ==
  WindowChosen =>
     /\ sg.window_length % 2 = 1
     /\ sg.window_length < sg.valid
     /\ IF sg.valid > MIN_WINDOW
        THEN /\ MIN_WINDOW <= sg.window_length
             /\ sg.window_length
                  <= Max2(MIN_WINDOW, sg.valid \div DATA_SHARE) + 1
        ELSE sg.window_length = MIN_WINDOW - 2

C25_Witness ==
  /\ WindowChosen
  /\ sg.window_length = Max2(MIN_WINDOW, sg.valid \div DATA_SHARE) + 1
  /\ sg.rate # None

\* C26: detect_corners returns the input columns with their values
\* unchanged; the lap_number of every sample of a table that has the column,
\* in-corner samples included, is after the call what it was before.
C26_LapNumberUnchanged ==
  (mode = "corners" /\ pc = "done" /\ ~raised /\ HasLaps(df)) =>
     \A k \in DOMAIN res : res[k].lap_number = df[k].lap

\* the index labels of the analysed table df_circuit
AnalysedLabels == {circ[i] : i \in DOMAIN circ}

Ordered(rec) ==
  /\ rec.entry_index <= rec.apex_index
  /\ rec.apex_index <= rec.exit_index
  /\ {rec.entry_index, rec.apex_index, rec.exit_index} \subseteq AnalysedLabels

\* C27: every per_lap_data record has entry_index <= apex_index <=
\* exit_index, all three being indices of samples of the analysed table, and
\* so have the reference entry, apex and exit of every Corner.
C27_EntryApexExitOrdered ==
  AboutToReturn =>
     /\ \A inst \in InstancesOf(corner_details) : Ordered(inst)
     /\ \A n \in 1..Len(corner_details) : Ordered(corner_details[n])

C27_Witness ==
  /\ AboutToReturn
  /\ Len(corner_details) >= 2
  /\ \E n \in 1..Len(corner_details) :
        /\ Len(corner_details[n].per_lap_data) >= 2
        /\ \E q \in 1..Len(corner_details[n].per_lap_data) :
              LET inst == corner_details[n].per_lap_data[q]
              IN /\ inst.entry_index < inst.apex_index
                 /\ inst.apex_index < inst.exit_index
                 /\ inst.entry_index # corner_details[n].entry_index

\* the samples of all per-lap instances of one Corner record
SamplesOf(corner) ==
  UNION {corner.per_lap_data[q].samples : q \in 1..Len(corner.per_lap_data)}

LabelsAgree ==
  \A k \in DOMAIN res :
     /\ (res[k].corner_id # 0) = res[k].is_corner
     /\ res[k].is_corner = (res[k].corner_type # "straight")

IdsAreOneToN ==
  {res[k].corner_id : k \in DOMAIN res} \ {0} = 1..attrs.total_corners

ApexInCorner == \A k \in DOMAIN res : res[k].is_apex => res[k].is_corner

NoSharedSample ==
  \A n1 \in 1..Len(Returned) : \A n2 \in 1..Len(Returned) :
     n1 # n2 => SamplesOf(Returned[n1]) \cap SamplesOf(Returned[n2]) = {}

\* C28: after a call that reports N corners, corner_id # 0 exactly where
\* is_corner holds and exactly where corner_type is not 'straight'; the
\* nonzero corner_id values are exactly 1..N; every is_apex sample is
\* in-corner; and no sample belongs to two Corners.
C28_LabelsConsistent ==
  (mode = "corners" /\ pc = "done") =>
     /\ LabelsAgree
     /\ IdsAreOneToN
     /\ ApexInCorner
     /\ NoSharedSample

SamplesOfRuns(corners) ==
  UNION {SeqSet(corners[q].indices) : q \in 1..Len(corners)}

\* the corners of m are made of the runs of the input taken in order: each
\* begins where one input run begins, later corners at later runs
KeepsOrder(m, corners) ==
  /\ \A q \in 1..Len(m) : \E i \in 1..Len(corners) :
        m[q].id = corners[i].id /\ m[q].start = corners[i].start
  /\ \A q \in 1..(Len(m) - 1) : m[q].id < m[q + 1].id

\* C29: for a fixed ordered list of runs, the number of corners that
\* _merge_by_min_dist returns does not increase when min_d increases, and
\* the returned corners keep the order of the input and together contain
\* exactly the samples of the input runs.
C29_MergeMonotoneAndComplete ==
  (mode = "merge_by_min_dist" /\ pc \in {"merged", "done"}) =>
     /\ pc = "done" => Len(caller.m) <= Len(caller.first_m)
     /\ KeepsOrder(caller.m, valid_corners)
     /\ SamplesOfRuns(caller.m) = SamplesOfRuns(valid_corners)

C29_Witness ==
  /\ mode = "merge_by_min_dist" /\ pc = "done"
  /\ caller.first_min_d > 0
  /\ caller.first_min_d < caller.min_d
  /\ Len(caller.m) < Len(caller.first_m)
  /\ Len(caller.first_m) < Len(valid_corners)

Resampled == mode = "resample" /\ pc = "done" /\ rs.strategy # "none"

\* |grid position i - cumulative distance of input sample k|, times rs.den
ArcGap(i, k) == Abs(rs.cum[i] - df[k].cum * rs.den)

BackRefsOrdered == \A i \in 1..(rs.n - 1) : rs.orig[i - 1] <= rs.orig[i]

BackRefsNearest ==
  \A i \in 0..(rs.n - 1) : \A k \in DOMAIN df :
     ArcGap(i, rs.orig[i]) <= ArcGap(i, k)

GridWithinInput ==
  \A i \in 0..(rs.n - 1) :
     /\ df[0].cum * rs.den <= rs.cum[i]
     /\ rs.cum[i] <= df[Size(df) - 1].cum * rs.den

\* C30: for an input of non-decreasing cumulative distance that is
\* resampled, to a sparser or to a denser grid, the back-references are
\* non-decreasing, each points to the input sample nearest in arc length to
\* its grid position, and every grid position lies within the arc-length
\* range the input covers, also when the cumulative distance does not start
\* at 0.
C30_GridWithinInputNearestRefs ==
  Resampled => (BackRefsOrdered /\ BackRefsNearest /\ GridWithinInput)

====
